---- MODULE Spec2Model ----
(***************************************************************************)
(* Speaker pipeline of the rag-backend: segment builder, voiceprint stores, *)
(* enrollment, identification and the speaking-share aggregation.          *)
(*                                                                         *)
(* Each component has its own specification (SpecSeg, SpecShares, ...):    *)
(* the variables of the other components stay at their idle values.        *)
(*                                                                         *)
(* Numbers: times are integer milliseconds, similarities are integers in  *)
(* thousandths (0.85 is 850), percentages are exact fractions over the     *)
(* total duration and, once rounded, integers in tenths of a percent.      *)
(***************************************************************************)
EXTENDS Integers, Sequences, FiniteSets, TLC

VARIABLES
    seg_pc,     \* segment builder: "call" before _probs_to_segments, "done" after
    seg_in,     \* its arguments: probs, hop_samples, collar_ms, min_ms
    seg_res,    \* its lists: raw (after the ms conversion), merged, out (returned)
    sh_pc,      \* share aggregation: "call" before _calc_speaking_shares, "done" after
    sh_in,      \* its arguments: seg_results, file_duration_ms
    sh_out,     \* the returned list of shares: name, ms, percent10
    id_pc,      \* identify_endpoint: "call" before the request is handled, "done" after
    id_store,   \* the module's _store: backend ("file" or "qdrant") and its entries
    id_req,     \* the request: q (embedding of the file), hints, threshold, top_k, segs
    id_resp,    \* the response: overall, topk_overall, segments (best, topk)
    rk_pc,      \* FileSpeakerDB.topk: "call" before the call, "done" after
    rk_in,      \* its receiver and arguments: entries, q_emb, top_k
    rk_out,     \* the returned list of candidates
    en_points,  \* routers/speakers.py: the points of the Qdrant collection, by id
    en_now,     \* int(time.time()): every request is handled a second after the one before
    en_fresh,   \* how many uuids the enrollments have drawn
    en_ops,     \* how many requests have been handled
    en_last,    \* the last request and its outcome
    sp_cfg,     \* services/spk_embed.py: SPEAKER_STORE, "file" or "qdrant"
    sp_npy,     \* the <id>.npy files of the speaker directory, by id
    sp_index,   \* index.json: the list of id and name
    sp_qpoints, \* the points of the Qdrant collection, by id
    sp_entries, \* FileSpeakerDB.entries, as the last _scan of the directory left them
    sp_written, \* history: the embedding each enrollment handed to the store, by id
    sp_ops,     \* how many calls have been made
    sp_last,    \* the last call and what it returned
    cl_centroids, \* the clusterer: the list of centroids, each a running sum and a count
    cl_prev,    \* the assign call before the last one
    cl_last,    \* the last assign call: embedding, returned id, whether it made a centroid
    jb_pc,     \* the enroll jobs: "queued", "retrieved" (between the read and the write of the point), "done", "error"
    jb_req,    \* the request of each job: spk_id, merge, files
    jb_seen,   \* what each job retrieved: the point of its spk_id (or none), and its clock reading
    jb_points, \* the speakers collection the jobs write to
    jb_now,    \* the clock of the jobs, in seconds
    fs_disk,   \* the speaker directory: id -> the voice in <id>.npy and the mtime of the file
    fs_dir_mtime, \* the mtime of the directory itself
    fs_clock,  \* the clock that stamps external writes
    fs_writes, \* how many external writes have been made
    fs_entries, \* FileSpeakerDB.entries
    fs_last_mtime, \* FileSpeakerDB._last_mtime
    fs_pc,     \* the thread in refresh_if_changed: "idle" or "scan"
    fs_todo,   \* the files of the glob listing that _scan has not loaded yet
    fs_read,   \* the last topk call: the entries it iterated, and the last complete list before it
    fs_full,   \* the entries as the last completed _scan left them
    fs_flag,   \* "written" after an external write, "checking" while a refresh that began after it runs, "settled" when that refresh has returned
    ir_pc,     \* the identification run: "idle", "call", "done"
    ir_store,  \* the store the run searches: backend and profiles
    ir_req,    \* the request: the overall embedding and the segments, each with what its embedding and its lookup do
    ir_resp,   \* the answer: status, overall match and the results per segment
    bs_pc,     \* the hint re-sort: "idle", "call", "done"
    bs_in,     \* the candidates a search returned, best first, and the hints of the request
    bs_out,    \* the candidates as re-sorted with the hint bonus
    vd_pc,     \* the VAD segmentation: "idle", "call", "done"
    vd_in,     \* the call: the speech decision of every frame, min_speech_ms, min_silence_ms
    vd_out,    \* what it computed: speech_runs, each with the frame at which it was closed, and the merged list returned
    dj_backend, \* DIAR_BACKEND of the process
    dj_files,  \* the job files of JOBS_DIR, by job number
    dj_tasks   \* the background task of each job: its position and what its source does

vars == <<seg_pc, seg_in, seg_res, sh_pc, sh_in, sh_out, id_pc, id_store, id_req, id_resp,
          rk_pc, rk_in, rk_out, en_points, en_now, en_fresh, en_ops, en_last,
          sp_cfg, sp_npy, sp_index, sp_qpoints, sp_entries, sp_written, sp_ops, sp_last,
          cl_centroids, cl_prev, cl_last,
          jb_pc, jb_req, jb_seen, jb_points, jb_now,
          fs_disk, fs_dir_mtime, fs_clock, fs_writes, fs_entries, fs_last_mtime, fs_pc, fs_todo, fs_read, fs_full, fs_flag,
          ir_pc, ir_store, ir_req, ir_resp,
          bs_pc, bs_in, bs_out,
          vd_pc, vd_in, vd_out,
          dj_backend, dj_files, dj_tasks>>

\* The variables of each component, and the values they keep while a
\* specification of another component runs.
SegVars == <<seg_pc, seg_in, seg_res>>
ShVars == <<sh_pc, sh_in, sh_out>>
IdVars == <<id_pc, id_store, id_req, id_resp>>
RkVars == <<rk_pc, rk_in, rk_out>>
EnVars == <<en_points, en_now, en_fresh, en_ops, en_last>>
SpVars == <<sp_cfg, sp_npy, sp_index, sp_qpoints, sp_entries, sp_written, sp_ops, sp_last>>
ClVars == <<cl_centroids, cl_prev, cl_last>>
JbVars == <<jb_pc, jb_req, jb_seen, jb_points, jb_now>>
FsVars == <<fs_disk, fs_dir_mtime, fs_clock, fs_writes, fs_entries, fs_last_mtime, fs_pc, fs_todo, fs_read, fs_full, fs_flag>>
IrVars == <<ir_pc, ir_store, ir_req, ir_resp>>
BsVars == <<bs_pc, bs_in, bs_out>>
VdVars == <<vd_pc, vd_in, vd_out>>
DjVars == <<dj_backend, dj_files, dj_tasks>>

SegIdle ==
    /\ seg_pc = "idle"
    /\ seg_in = [probs |-> <<>>, hop_samples |-> 480, collar_ms |-> 0, min_ms |-> 0]
    /\ seg_res = [raw |-> <<>>, merged |-> <<>>, out |-> <<>>]
ShIdle ==
    /\ sh_pc = "idle"
    /\ sh_in = [segs |-> <<>>, file_duration_ms |-> 0]
    /\ sh_out = <<>>

\* "no candidate": best is None
NoCand == [id |-> 0, name |-> <<>>, similarity |-> 0]
\* an embedding: a direction (the voice) and a magnitude, "unit" once L2-normalized,
\* "raw" as the encoder gives it, "zero" for the zero vector
ZeroEmb == [dir |-> 0, mag |-> "zero"]

IdIdle ==
    /\ id_pc = "idle"
    /\ id_store = [backend |-> "file", entries |-> <<>>]
    /\ id_req = [q |-> ZeroEmb, hints |-> <<>>, threshold |-> <<>>, top_k |-> <<>>, segs |-> <<>>]
    /\ id_resp = [overall |-> NoCand, topk_overall |-> <<>>, segments |-> <<>>]

RkIdle ==
    /\ rk_pc = "idle"
    /\ rk_in = [entries |-> <<>>, q_emb |-> ZeroEmb, top_k |-> 0]
    /\ rk_out = <<>>

\* no request handled yet
NoRequest == [op |-> "none", spk_id |-> <<>>, name |-> <<>>, tags |-> {}, merge |-> FALSE,
              n |-> 0, files |-> <<>>, vector |-> <<>>, status |-> 0]

EnIdle ==
    /\ en_points = <<>>
    /\ en_now = 0
    /\ en_fresh = 0
    /\ en_ops = 0
    /\ en_last = NoRequest

NoCall == [op |-> "none", id |-> 0, emb |-> <<>>, ok |-> FALSE]

SpIdle ==
    /\ sp_cfg = "file"
    /\ sp_npy = <<>>
    /\ sp_index = <<>>
    /\ sp_qpoints = <<>>
    /\ sp_entries = <<>>
    /\ sp_written = <<>>
    /\ sp_ops = 0
    /\ sp_last = NoCall

NoAssign == [emb |-> <<0, 0>>, id |-> 0, created |-> FALSE, called |-> FALSE]

ClIdle ==
    /\ cl_centroids = <<>>
    /\ cl_prev = NoAssign
    /\ cl_last = NoAssign

JbIdle ==
    /\ jb_pc = <<>>
    /\ jb_req = <<>>
    /\ jb_seen = <<>>
    /\ jb_points = <<>>
    /\ jb_now = 0

NoRead == [called |-> FALSE, observed |-> <<>>, complete |-> <<>>]
FsIdle ==
    /\ fs_disk = <<>>
    /\ fs_dir_mtime = 0
    /\ fs_clock = 0
    /\ fs_writes = 0
    /\ fs_entries = <<>>
    /\ fs_last_mtime = 0
    /\ fs_pc = "idle"
    /\ fs_todo = {}
    /\ fs_read = NoRead
    /\ fs_full = <<>>
    /\ fs_flag = "settled"

NoAnswer == [status |-> 0, overall |-> NoCand, segments |-> <<>>, labels |-> <<>>]
IrIdle ==
    /\ ir_pc = "idle"
    /\ ir_store = [backend |-> "file", entries |-> <<>>]
    /\ ir_req = [q |-> ZeroEmb, segs |-> <<>>]
    /\ ir_resp = NoAnswer

BsIdle ==
    /\ bs_pc = "idle"
    /\ bs_in = [cands |-> <<>>, hints |-> <<>>]
    /\ bs_out = <<>>

VdIdle ==
    /\ vd_pc = "idle"
    /\ vd_in = [frames |-> <<>>, min_speech_ms |-> 0, min_silence_ms |-> 0]
    /\ vd_out = [runs |-> <<>>, merged |-> <<>>]

DjIdle ==
    /\ dj_backend = "vad"
    /\ dj_files = <<>>
    /\ dj_tasks = <<>>

NotSegVars == <<ShVars, IdVars, RkVars, EnVars, SpVars, ClVars, JbVars, FsVars, IrVars, BsVars, VdVars, DjVars>>
NotSegIdle ==
    ShIdle /\ IdIdle /\ RkIdle /\ EnIdle /\ SpIdle /\ ClIdle /\ JbIdle /\ FsIdle /\ IrIdle /\ BsIdle /\ VdIdle /\ DjIdle
NotShVars == <<SegVars, IdVars, RkVars, EnVars, SpVars, ClVars, JbVars, FsVars, IrVars, BsVars, VdVars, DjVars>>
NotShIdle ==
    SegIdle /\ IdIdle /\ RkIdle /\ EnIdle /\ SpIdle /\ ClIdle /\ JbIdle /\ FsIdle /\ IrIdle /\ BsIdle /\ VdIdle /\ DjIdle
NotIdVars == <<SegVars, ShVars, RkVars, EnVars, SpVars, ClVars, JbVars, FsVars, IrVars, BsVars, VdVars, DjVars>>
NotIdIdle ==
    SegIdle /\ ShIdle /\ RkIdle /\ EnIdle /\ SpIdle /\ ClIdle /\ JbIdle /\ FsIdle /\ IrIdle /\ BsIdle /\ VdIdle /\ DjIdle
NotRkVars == <<SegVars, ShVars, IdVars, EnVars, SpVars, ClVars, JbVars, FsVars, IrVars, BsVars, VdVars, DjVars>>
NotRkIdle ==
    SegIdle /\ ShIdle /\ IdIdle /\ EnIdle /\ SpIdle /\ ClIdle /\ JbIdle /\ FsIdle /\ IrIdle /\ BsIdle /\ VdIdle /\ DjIdle
NotEnVars == <<SegVars, ShVars, IdVars, RkVars, SpVars, ClVars, JbVars, FsVars, IrVars, BsVars, VdVars, DjVars>>
NotEnIdle ==
    SegIdle /\ ShIdle /\ IdIdle /\ RkIdle /\ SpIdle /\ ClIdle /\ JbIdle /\ FsIdle /\ IrIdle /\ BsIdle /\ VdIdle /\ DjIdle
NotSpVars == <<SegVars, ShVars, IdVars, RkVars, EnVars, ClVars, JbVars, FsVars, IrVars, BsVars, VdVars, DjVars>>
NotSpIdle ==
    SegIdle /\ ShIdle /\ IdIdle /\ RkIdle /\ EnIdle /\ ClIdle /\ JbIdle /\ FsIdle /\ IrIdle /\ BsIdle /\ VdIdle /\ DjIdle
NotClVars == <<SegVars, ShVars, IdVars, RkVars, EnVars, SpVars, JbVars, FsVars, IrVars, BsVars, VdVars, DjVars>>
NotClIdle ==
    SegIdle /\ ShIdle /\ IdIdle /\ RkIdle /\ EnIdle /\ SpIdle /\ JbIdle /\ FsIdle /\ IrIdle /\ BsIdle /\ VdIdle /\ DjIdle
NotJbVars == <<SegVars, ShVars, IdVars, RkVars, EnVars, SpVars, ClVars, FsVars, IrVars, BsVars, VdVars, DjVars>>
NotJbIdle ==
    SegIdle /\ ShIdle /\ IdIdle /\ RkIdle /\ EnIdle /\ SpIdle /\ ClIdle /\ FsIdle /\ IrIdle /\ BsIdle /\ VdIdle /\ DjIdle
NotFsVars == <<SegVars, ShVars, IdVars, RkVars, EnVars, SpVars, ClVars, JbVars, IrVars, BsVars, VdVars, DjVars>>
NotFsIdle ==
    SegIdle /\ ShIdle /\ IdIdle /\ RkIdle /\ EnIdle /\ SpIdle /\ ClIdle /\ JbIdle /\ IrIdle /\ BsIdle /\ VdIdle /\ DjIdle
NotIrVars == <<SegVars, ShVars, IdVars, RkVars, EnVars, SpVars, ClVars, JbVars, FsVars, BsVars, VdVars, DjVars>>
NotIrIdle ==
    SegIdle /\ ShIdle /\ IdIdle /\ RkIdle /\ EnIdle /\ SpIdle /\ ClIdle /\ JbIdle /\ FsIdle /\ BsIdle /\ VdIdle /\ DjIdle
NotBsVars == <<SegVars, ShVars, IdVars, RkVars, EnVars, SpVars, ClVars, JbVars, FsVars, IrVars, VdVars, DjVars>>
NotBsIdle ==
    SegIdle /\ ShIdle /\ IdIdle /\ RkIdle /\ EnIdle /\ SpIdle /\ ClIdle /\ JbIdle /\ FsIdle /\ IrIdle /\ VdIdle /\ DjIdle
NotVdVars == <<SegVars, ShVars, IdVars, RkVars, EnVars, SpVars, ClVars, JbVars, FsVars, IrVars, BsVars, DjVars>>
NotVdIdle ==
    SegIdle /\ ShIdle /\ IdIdle /\ RkIdle /\ EnIdle /\ SpIdle /\ ClIdle /\ JbIdle /\ FsIdle /\ IrIdle /\ BsIdle /\ DjIdle
NotDjVars == <<SegVars, ShVars, IdVars, RkVars, EnVars, SpVars, ClVars, JbVars, FsVars, IrVars, BsVars, VdVars>>
NotDjIdle ==
    SegIdle /\ ShIdle /\ IdIdle /\ RkIdle /\ EnIdle /\ SpIdle /\ ClIdle /\ JbIdle /\ FsIdle /\ IrIdle /\ BsIdle /\ VdIdle

Max(a, b) == IF a >= b THEN a ELSE b
Min(a, b) == IF a <= b THEN a ELSE b

RECURSIVE SeqSum(_)
SeqSum(s) == IF s = <<>> THEN 0 ELSE Head(s) + SeqSum(Tail(s))

Abs(x) == IF x >= 0 THEN x ELSE 0 - x

\* list.sort(key=..., reverse=True) on pairs <<key, item>>: descending and stable,
\* items with equal keys keep the order they had
\* a collection keyed by id: write one key, delete one key
PutAt(f, k, v) == [i \in DOMAIN f \cup {k} |-> IF i = k THEN v ELSE f[i]]
DropAt(f, k) == [i \in DOMAIN f \ {k} |-> f[i]]

RECURSIVE InsertBeforeTies(_, _)
RECURSIVE InsertStable(_, _)
InsertBeforeTies(sorted, p) ==
    IF sorted = <<>> THEN <<p>>
    ELSE IF Head(sorted)[1] > p[1]
         THEN <<Head(sorted)>> \o InsertBeforeTies(Tail(sorted), p)
         ELSE <<p>> \o sorted

InsertStable(sorted, p) ==
    IF sorted = <<>> THEN <<p>>
    ELSE IF Head(sorted)[1] >= p[1]
         THEN <<Head(sorted)>> \o InsertStable(Tail(sorted), p)
         ELSE <<p>> \o sorted

RECURSIVE SortDesc(_)
SortDesc(ps) ==
    IF ps = <<>> THEN <<>>
    ELSE InsertStable(SortDesc(SubSeq(ps, 1, Len(ps) - 1)), ps[Len(ps)])

(***************************************************************************)
(* Segment builder: routers/diarize.py, _probs_to_segments                 *)
(***************************************************************************)
\* Bounds of the inputs: the frame decisions are given as alternating runs.
MaxRuns == 5
RunLens == {1, 19, 20}

\* sr and threshold as _run_diarization_vad passes them (threshold in percent)
SR == 16000
ProbThreshold == 50
\* one probability below the threshold, one exactly on it
ProbLo == ProbThreshold - 1
ProbHi == ProbThreshold
\* hop_samples: 480 is the 30 ms window of _silero_frame_probs, 1600 a 100 ms one
HopSamples == {480, 1600}
\* collar_s and min_speech_s, in whole milliseconds (defaults 50 and 200)
CollarMs == {0, 30, 50, 200}
MinSpeechMs == {0, 200, 600}

RECURSIVE RunsToProbs(_, _)
RunsToProbs(runs, speech) ==
    IF runs = <<>> THEN <<>>
    ELSE [i \in 1..Head(runs) |-> IF speech THEN ProbHi ELSE ProbLo]
         \o RunsToProbs(Tail(runs), ~speech)

RunSeqs == UNION {[1..n -> RunLens] : n \in 0..MaxRuns}
ProbInputs == {RunsToProbs(r, b) : r \in RunSeqs, b \in BOOLEAN}

\* frames = (probs >= threshold)
Frames(probs) == [i \in 1..Len(probs) |-> IF probs[i] >= ProbThreshold THEN 1 ELSE 0]

\* the loop over enumerate(frames); f is the 1-based position, f - 1 the index
RECURSIVE ScanFrames(_, _, _, _, _)
ScanFrames(frames, f, in_speech, start_f, segs) ==
    IF f > Len(frames)
    THEN IF in_speech THEN Append(segs, <<start_f, Len(frames)>>) ELSE segs
    ELSE IF frames[f] = 1 /\ ~in_speech
         THEN ScanFrames(frames, f + 1, TRUE, f - 1, segs)
    ELSE IF frames[f] = 0 /\ in_speech
         THEN ScanFrames(frames, f + 1, FALSE, start_f, Append(segs, <<start_f, f - 1>>))
    ELSE ScanFrames(frames, f + 1, in_speech, start_f, segs)

FrameToMs(f, hop_samples) == ((f * hop_samples) * 1000) \div SR

\* "zu ms": the intervals with end_ms <= start_ms are skipped
RECURSIVE ToMs(_, _)
ToMs(segs, hop_samples) ==
    IF segs = <<>> THEN <<>>
    ELSE LET st == FrameToMs(Head(segs)[1], hop_samples)
             en == FrameToMs(Head(segs)[2], hop_samples)
             rest == ToMs(Tail(segs), hop_samples)
         IN IF en <= st THEN rest
            ELSE <<[start_ms |-> st, end_ms |-> en]>> \o rest

MergeGapLt(last, s, collar_ms) == s.start_ms - last.end_ms < collar_ms
\* the merge test of the collar loops
MergeGap(last, s, collar_ms) == s.start_ms - last.end_ms <= collar_ms

RECURSIVE MergeLoop(_, _, _)
MergeLoop(merged, rest, collar_ms) ==
    IF rest = <<>> THEN merged
    ELSE LET last == merged[Len(merged)]
             s == Head(rest)
         IN IF MergeGap(last, s, collar_ms)
            THEN MergeLoop([merged EXCEPT ![Len(merged)].end_ms = Max(last.end_ms, s.end_ms)],
                           Tail(rest), collar_ms)
            ELSE MergeLoop(Append(merged, s), Tail(rest), collar_ms)

\* "zusammenfuehren enger Grenzen (collar)": only if collar_s > 0 and out
MergeClose(out, collar_ms) ==
    IF collar_ms > 0 /\ out # <<>>
    THEN MergeLoop(<<out[1]>>, Tail(out), collar_ms)
    ELSE out

LongEnoughEnd(s, min_ms) == s.end_ms >= min_ms
\* the test of the filter that drops the short intervals
LongEnough(s, min_ms) == (s.end_ms - s.start_ms) >= min_ms

\* "kurze Schnipsel verwerfen": only if min_speech_s > 0
DropShort(out, min_ms) ==
    IF min_ms > 0 THEN SelectSeq(out, LAMBDA s : LongEnough(s, min_ms)) ELSE out

ProbsToSegments(in) ==
    LET raw == ToMs(ScanFrames(Frames(in.probs), 1, FALSE, 0, <<>>), in.hop_samples)
        merged == MergeClose(raw, in.collar_ms)
        kept == DropShort(merged, in.min_ms)
    IN [raw |-> raw, merged |-> merged, out |-> MergeClose(kept, in.collar_ms)]

SegInputs == [probs : ProbInputs, hop_samples : HopSamples,
              collar_ms : CollarMs, min_ms : MinSpeechMs]
NoSegRes == [raw |-> <<>>, merged |-> <<>>, out |-> <<>>]


InitSeg == seg_pc = "call" /\ seg_in \in SegInputs /\ seg_res = NoSegRes /\ NotSegIdle

\* _run_diarization_vad calls _probs_to_segments and returns its list
RunDiarizationVad ==
    /\ seg_pc = "call"
    /\ seg_res' = ProbsToSegments(seg_in)
    /\ seg_pc' = "done"
    /\ UNCHANGED <<seg_in, NotSegVars>>

NextSeg == RunDiarizationVad
SpecSeg == InitSeg /\ [][NextSeg]_vars


(***************************************************************************)
(* Speaking shares: routers/identify.py, _calc_speaking_shares             *)
(*                                                                         *)
(* A percentage is the exact fraction pn / den; the float drift of the      *)
(* code's arithmetic (about 1e-13) is far below the 1e-6 of its residual    *)
(* test and is not modelled. round(x, 1) gives tenths of a percent; on an   *)
(* exact tie the float decides, so the tie goes either way.                *)
(***************************************************************************)
MaxShareSegs == 3
\* start_ms, end_ms of a segment: 600, 300 and 100 ms long, empty, and reversed
SegSpans == {<<0, 600>>, <<600, 900>>, <<900, 1000>>, <<1000, 1000>>, <<1000, 900>>}
\* best.name of a segment, stripped; "" when best is None or has no name
BestNames == {"A", "B", ""}
FileDurations == {0, 1000}
Unknown == "Unbekannt"
\* the target of _normalize_percents, and the 1e-6 of its test as 1 / ResidualInv
Target == 100
ResidualInv == 1000000

ShareSegs == [start_ms : {p[1] : p \in SegSpans}, end_ms : {p[2] : p \in SegSpans},
              name : BestNames]
ShareSegInputs == {s \in ShareSegs : <<s.start_ms, s.end_ms>> \in SegSpans}
ShareInputs == [segs : UNION {[1..n -> ShareSegInputs] : n \in 0..MaxShareSegs},
                file_duration_ms : FileDurations]

\* dur = max(0, en - st)
ClampedDur(s) == Max(0, s.end_ms - s.start_ms)
\* key = name if name else "Unbekannt"
BucketKey(s) == IF s.name # "" THEN s.name ELSE Unknown

\* buckets[key] = buckets.get(key, 0) + dur; a dict keeps its keys in insertion order
AddToBucket(buckets, key, dur) ==
    IF \E i \in 1..Len(buckets) : buckets[i].name = key
    THEN [i \in 1..Len(buckets) |->
            IF buckets[i].name = key THEN [buckets[i] EXCEPT !.ms = @ + dur] ELSE buckets[i]]
    ELSE Append(buckets, [name |-> key, ms |-> dur])

RECURSIVE Buckets(_)
Buckets(segs) ==
    IF segs = <<>> THEN <<>>
    ELSE LET last == segs[Len(segs)]
         IN AddToBucket(Buckets(SubSeq(segs, 1, Len(segs) - 1)), BucketKey(last), ClampedDur(last))

RECURSIVE TotalMs(_)
TotalMs(segs) == IF segs = <<>> THEN 0 ELSE ClampedDur(Head(segs)) + TotalMs(Tail(segs))

\* if total_ms <= 0 and file_duration_ms: total_ms = int(file_duration_ms)
EffectiveTotal(segs, file_duration_ms) ==
    IF TotalMs(segs) <= 0 /\ file_duration_ms # 0 THEN file_duration_ms ELSE TotalMs(segs)

\* pct = 0.0 if total_ms <= 0 else (ms / float(total_ms)) * 100.0, as pn / total_ms
RawShares(buckets, total_ms) ==
    [i \in 1..Len(buckets) |->
        [name |-> buckets[i].name, ms |-> buckets[i].ms,
         pn |-> IF total_ms <= 0 THEN 0 ELSE buckets[i].ms * 100]]

\* the shares in the order of the buckets
KeepOrder(shares) == shares

SortByMs(shares) ==
    LET sorted == SortDesc([i \in 1..Len(shares) |-> <<shares[i].ms, shares[i]>>])
    IN [i \in 1..Len(sorted) |-> sorted[i][2]]

SortByPn(shares) ==
    LET sorted == SortDesc([i \in 1..Len(shares) |-> <<shares[i].pn, shares[i]>>])
    IN [i \in 1..Len(sorted) |-> sorted[i][2]]

PnSum(items) == SeqSum([i \in 1..Len(items) |-> items[i].pn])

\* _normalize_percents on percentages pn / den; the result has pn over a new den
NormalizePercents(items, den) ==
    LET s == PnSum(items)
    IN IF s <= 0 THEN [items |-> items, den |-> den]
       ELSE LET \* x * scale with scale = target / s:  (pn / den) * (Target * den / s)
                scaled == [i \in 1..Len(items) |-> [items[i] EXCEPT !.pn = @ * Target]]
                total == PnSum(scaled)
                diff == Target * s - total
            IN IF Abs(total - Target * s) * ResidualInv > s
               THEN LET bypn == SortByPn(scaled)
                    IN [items |-> [bypn EXCEPT ![1].pn = @ + diff], den |-> s]
               ELSE [items |-> scaled, den |-> s]

RoundDown(pn, den, up) == (pn * 10) \div den
\* round(x, 1) of x = pn / den >= 0, in tenths; up decides an exact tie
Round1(pn, den, up) ==
    LET q == (pn * 10) \div den
        r == (pn * 10) % den
    IN IF 2 * r < den THEN q
       ELSE IF 2 * r > den THEN q + 1
       ELSE IF up THEN q + 1 ELSE q

CalcSpeakingShares(in, ties) ==
    LET total_ms == EffectiveTotal(in.segs, in.file_duration_ms)
        shares == SortByMs(RawShares(Buckets(in.segs), total_ms))
        norm == NormalizePercents(shares, Max(1, total_ms))
    IN [i \in 1..Len(norm.items) |->
          [name |-> norm.items[i].name, ms |-> norm.items[i].ms,
           percent10 |-> Round1(norm.items[i].pn, norm.den, ties[i])]]


InitShares == sh_pc = "call" /\ sh_in \in ShareInputs /\ sh_out = <<>> /\ NotShIdle

\* one call of _calc_speaking_shares(seg_results, file_duration_ms)
CalcShares ==
    /\ sh_pc = "call"
    \* one tie decision per share; there are no more shares than names
    /\ \E ties \in [1..Cardinality(BestNames) -> BOOLEAN] :
          sh_out' = CalcSpeakingShares(sh_in, ties)
    /\ sh_pc' = "done"
    /\ UNCHANGED <<sh_in, NotShVars>>

NextShares == CalcShares
SpecShares == InitShares /\ [][NextShares]_vars


(***************************************************************************)
(* _vad_segments of services/diarize.py: the loop over the frames of the   *)
(* file with the speech decision of the VAD for each frame, the segment    *)
(* still open at the end, and the merge of close segments.                 *)
(***************************************************************************)
MaxVadRuns == 5
MaxVadFrames == 16
\* frame_ms of the call, and the largest gap that is merged
HopMs == 30
MergeGapMs == 250
\* lengths of a run of equal frames, in frames: 30, 60 and 270 ms
VadRunLengths == {1, 2, 9}
VadMinSpeechMs == {0, 60}
VadMinSilenceMs == {0, 60}

RECURSIVE RunsToFrames(_, _)
RunsToFrames(lens, speech) ==
    IF lens = <<>> THEN <<>>
    ELSE [i \in 1..lens[1] |-> speech] \o RunsToFrames(Tail(lens), ~speech)

VadFrames ==
    {f \in UNION {{RunsToFrames(lens, first) : lens \in [1..n -> VadRunLengths],
                                               first \in BOOLEAN} : n \in 0..MaxVadRuns} :
        Len(f) <= MaxVadFrames}

VadStart == [in_speech |-> FALSE, seg_start_ms |-> 0, current_len_ms |-> 0,
             silence_run_ms |-> 0, runs |-> <<>>]

\* the body of the loop for frame idx (from 0)
VadStep(st, idx, is_speech, min_speech_ms, min_silence_ms) ==
    LET ts_ms == idx * HopMs
    IN IF is_speech
       THEN IF ~st.in_speech
            THEN [st EXCEPT !.in_speech = TRUE, !.seg_start_ms = ts_ms,
                            !.current_len_ms = HopMs, !.silence_run_ms = 0]
            ELSE [st EXCEPT !.current_len_ms = @ + HopMs]
       ELSE IF st.in_speech
            THEN LET silence == st.silence_run_ms + HopMs
                 IN IF silence >= min_silence_ms /\ st.current_len_ms >= min_speech_ms
                    THEN [st EXCEPT !.in_speech = FALSE, !.current_len_ms = 0,
                                    !.silence_run_ms = 0,
                                    !.runs = Append(@, [start_ms |-> st.seg_start_ms,
                                                        end_ms |-> ts_ms - (silence - HopMs),
                                                        closed_at |-> idx])]
                    ELSE [st EXCEPT !.silence_run_ms = silence]
            ELSE [st EXCEPT !.current_len_ms = 0, !.silence_run_ms = 0]

RECURSIVE VadLoop(_, _, _, _)
VadLoop(frames, n, min_speech_ms, min_silence_ms) ==
    IF n = 0 THEN VadStart
    ELSE VadStep(VadLoop(frames, n - 1, min_speech_ms, min_silence_ms), n - 1, frames[n],
                 min_speech_ms, min_silence_ms)

\* the segment that is open after the last frame
VadSpeechRuns(frames, min_speech_ms, min_silence_ms) ==
    LET st == VadLoop(frames, Len(frames), min_speech_ms, min_silence_ms)
        end_ms == Len(frames) * HopMs
    IN IF st.in_speech /\ end_ms - st.seg_start_ms >= min_speech_ms
       THEN Append(st.runs, [start_ms |-> st.seg_start_ms, end_ms |-> end_ms,
                             closed_at |-> Len(frames)])
       ELSE st.runs

\* the runs as they are
NoMerge(runs) == [i \in 1..Len(runs) |-> <<runs[i].start_ms, runs[i].end_ms>>]

\* the merge of segments with a gap of at most 250 ms
RECURSIVE VadMerge(_)
VadMerge(runs) ==
    IF runs = <<>> THEN <<>>
    ELSE LET before == VadMerge(SubSeq(runs, 1, Len(runs) - 1))
             r == runs[Len(runs)]
         IN IF before # <<>> /\ r.start_ms - before[Len(before)][2] <= MergeGapMs
            THEN [before EXCEPT ![Len(before)] = <<@[1], r.end_ms>>]
            ELSE Append(before, <<r.start_ms, r.end_ms>>)

InitVad ==
    /\ vd_pc = "call"
    /\ vd_in \in [frames : VadFrames, min_speech_ms : VadMinSpeechMs,
                  min_silence_ms : VadMinSilenceMs]
    /\ vd_out = [runs |-> <<>>, merged |-> <<>>]
    /\ NotVdIdle

\* one call of _vad_segments
VadSegments ==
    /\ vd_pc = "call"
    /\ LET runs == VadSpeechRuns(vd_in.frames, vd_in.min_speech_ms, vd_in.min_silence_ms)
       IN vd_out' = [runs |-> runs, merged |-> VadMerge(runs)]
    /\ vd_pc' = "done"
    /\ UNCHANGED <<vd_in, NotVdVars>>

NextVad == VadSegments
SpecVad == InitVad /\ [][NextVad]_vars


(***************************************************************************)
(* The diarization jobs of routers/diarize.py: POST /diarize/async writes  *)
(* the job file and queues _do_diarize_job, which runs as a background     *)
(* task.  The time stamps of the job file are left out.                    *)
(***************************************************************************)
MaxDiarJobs == 2
DiarBackends == {"vad", "pyannote", "other"}
\* what the source of a job does: the first step that raises, if any
DiarFailures == {"none", "download", "convert", "diarize"}
NoResult == <<>>
NoError == <<>>

\* the segments are computed by the backend that is configured
BackendInfo(backend) == IF backend = "vad" THEN "silero-vad" ELSE "pyannote"
BackendSupported(backend) == backend \in {"vad", "pyannote"}

\* the job file as it was
KeepJob(j, result) == j
\* j.update({"status": "done", "result": result, ...})
JobDone(j, result) == [j EXCEPT !.status = "done", !.result = <<result>>]
\* j.update({"status": "error", "error": str(e), ...})
JobError(j, e) == [j EXCEPT !.status = "error", !.error = <<e>>]

InitDiar ==
    /\ dj_backend \in DiarBackends
    /\ dj_files = <<>>
    /\ dj_tasks = <<>>
    /\ NotDjIdle

\* POST /diarize/async
DiarizeAsync ==
    /\ Len(dj_files) < MaxDiarJobs
    /\ \E callback_url \in BOOLEAN, fails \in DiarFailures :
          \* an unsupported backend is followed for the sources that reach the diarization
          /\ ~BackendSupported(dj_backend) => fails = "none"
          /\ dj_files' = Append(dj_files, [status |-> "queued", result |-> NoResult,
                                           error |-> NoError, posted |-> "none",
                                           request |-> [callback_url |-> callback_url]])
          /\ dj_tasks' = Append(dj_tasks, [pc |-> "load", fails |-> fails, e |-> ""])
    /\ UNCHANGED <<dj_backend, NotDjVars>>

\* _do_diarize_job: _job_load and _download_to_tmp
JobDownload(jid) ==
    /\ jid \in 1..Len(dj_tasks)
    /\ dj_tasks[jid].pc = "load"
    /\ dj_tasks' = [dj_tasks EXCEPT ![jid] =
                       IF @.fails = "download"
                       THEN [@ EXCEPT !.pc = "except", !.e = "download failed"]
                       ELSE [@ EXCEPT !.pc = "convert"]]
    /\ UNCHANGED <<dj_backend, dj_files, NotDjVars>>

\* _do_diarize_job: _ffmpeg_wav_mono16k and _audio_duration_ms
JobConvert(jid) ==
    /\ jid \in 1..Len(dj_tasks)
    /\ dj_tasks[jid].pc = "convert"
    /\ dj_tasks' = [dj_tasks EXCEPT ![jid] =
                       IF @.fails = "convert"
                       THEN [@ EXCEPT !.pc = "except", !.e = "ffmpeg failed"]
                       ELSE [@ EXCEPT !.pc = "diarize"]]
    /\ UNCHANGED <<dj_backend, dj_files, NotDjVars>>

\* _do_diarize_job: the diarization of the configured backend
JobDiarize(jid) ==
    /\ jid \in 1..Len(dj_tasks)
    /\ dj_tasks[jid].pc = "diarize"
    /\ dj_tasks' = [dj_tasks EXCEPT ![jid] =
                       IF ~BackendSupported(dj_backend)
                       THEN [@ EXCEPT !.pc = "except", !.e = "unsupported backend"]
                       ELSE IF @.fails = "diarize"
                       THEN [@ EXCEPT !.pc = "except", !.e = "diarization failed"]
                       ELSE [@ EXCEPT !.pc = "save"]]
    /\ UNCHANGED <<dj_backend, dj_files, NotDjVars>>

\* _do_diarize_job: the job is saved as done, the callback posted, the files removed
JobSaveDone(jid) ==
    /\ jid \in 1..Len(dj_tasks)
    /\ dj_tasks[jid].pc = "save"
    /\ LET j == JobDone(dj_files[jid], [backend |-> BackendInfo(dj_backend)])
       IN dj_files' = [dj_files EXCEPT ![jid] =
                          IF j.request.callback_url THEN [j EXCEPT !.posted = j.status] ELSE j]
    /\ dj_tasks' = [dj_tasks EXCEPT ![jid].pc = "end"]
    /\ UNCHANGED <<dj_backend, NotDjVars>>

\* _do_diarize_job: the except branch
JobExcept(jid) ==
    /\ jid \in 1..Len(dj_tasks)
    /\ dj_tasks[jid].pc = "except"
    /\ LET j == JobError(dj_files[jid], dj_tasks[jid].e)
       IN dj_files' = [dj_files EXCEPT ![jid] =
                          IF j.request.callback_url THEN [j EXCEPT !.posted = j.status] ELSE j]
    /\ dj_tasks' = [dj_tasks EXCEPT ![jid].pc = "end"]
    /\ UNCHANGED <<dj_backend, NotDjVars>>

DoDiarizeJob(jid) ==
    \/ JobDownload(jid)
    \/ JobConvert(jid)
    \/ JobDiarize(jid)
    \/ JobSaveDone(jid)
    \/ JobExcept(jid)

NextDiar == DiarizeAsync \/ \E jid \in 1..MaxDiarJobs : DoDiarizeJob(jid)
SpecDiar == InitDiar /\ [][NextDiar]_vars
\* every background task is run by a thread of its own until it returns
SpecDiarFair == SpecDiar /\ \A jid \in 1..MaxDiarJobs : WF_vars(DoDiarizeJob(jid))


(***************************************************************************)
(* Identification: routers/identify.py, the stores and identify_endpoint   *)
(*                                                                         *)
(* The encoder is external: an embedding is a voice on a line of voices and *)
(* the cosine similarity of two embeddings depends on the distance of      *)
(* their voices only (thousandths). Names and hints are sequences of       *)
(* characters, so that lower() and the substring test are computed.        *)
(***************************************************************************)
MaxProfiles == 3
MaxIdSegs == 1
Voices == 0..2
\* similarity of two voices at distance 0, 1, 2
SimByDist == <<910, 805, 800>>
\* SPEAKER_SIM_THRESHOLD (0.82), SPEAKER_TOP_K, and the hint bonus (0.01)
SpeakerSimThreshold == 820
TopKDefault == 3
HintBonus == 10

Anna == <<"A", "n", "n", "a">>
Ben == <<"B", "e", "n">>
ProfileNames == {Anna, Ben}
\* the hints form field, parsed: no hints, a full name, a part of a name
HintLists == {<<>>, <<Anna>>, <<<<"a", "n", "n">>>>}
\* the threshold and top_k form fields: <<>> is None
Thresholds == {<<>>, <<803>>, <<850>>}

UnitEmb(v) == [dir |-> v, mag |-> "unit"]

\* _l2_normalize: vec / (norm + eps); the zero vector stays zero
L2Normalize(e) == IF e.mag = "zero" THEN e ELSE [e EXCEPT !.mag = "unit"]

\* _cosine_sim: the magnitudes cancel; with a zero vector the dot product is 0
CosineSim(a, b) ==
    IF a.mag = "zero" \/ b.mag = "zero" THEN 0
    ELSE SimByDist[Abs(a.dir - b.dir) + 1]

LowerChar(c) == IF c = "A" THEN "a" ELSE IF c = "B" THEN "b" ELSE c
\* str.lower()
Lower(str) == [i \in 1..Len(str) |-> LowerChar(str[i])]
\* the Python test: sub in str
Contains(str, sub) ==
    \E i \in 0..(Len(str) - Len(sub)) : SubSeq(str, i + 1, i + Len(sub)) = sub

\* seq[:max(1, top_k)]
Take(seq, n) == SubSeq(seq, 1, Min(Len(seq), Max(1, n)))

Cand(e, sim) == [id |-> e.id, name |-> e.name, similarity |-> sim]

SortBySim(cands) ==
    LET sorted == SortDesc([i \in 1..Len(cands) |-> <<cands[i].similarity, cands[i]>>])
    IN [i \in 1..Len(sorted) |-> sorted[i][2]]

\* FileSpeakerDB.topk: every entry scored, sorted by similarity, cut to top_k
FileTopk(entries, q_emb, top_k) ==
    Take(SortBySim([i \in 1..Len(entries) |-> Cand(entries[i], CosineSim(q_emb, entries[i].emb))]),
         top_k)

\* _qfilter_from_hints with the search of the client: MatchAny on payload.name,
\* no filter without hints
QdrantMatches(e, hints) ==
    hints = <<>> \/ \E i \in 1..Len(hints) : e.name = hints[i]

\* client.search(query_vector, limit, query_filter): the matching points by score
QdrantSearch(points, q_emb, limit, hints) ==
    Take(SortBySim([i \in 1..Len(SelectSeq(points, LAMBDA e : QdrantMatches(e, hints))) |->
            LET e == SelectSeq(points, LAMBDA x : QdrantMatches(x, hints))[i]
            IN Cand(e, CosineSim(q_emb, e.emb))]),
         limit)

\* QdrantSpeakerDB.topk and topk_with_filter
QdrantTopk(points, q_emb, top_k) == QdrantSearch(points, q_emb, top_k, <<>>)
QdrantTopkWithFilter(points, q_emb, top_k, hints) == QdrantSearch(points, q_emb, top_k, hints)

\* the search of identify_endpoint: filtered only on the Qdrant store with hints
EndpointSearch(store, q_emb, k, hints_list) ==
    IF store.backend = "qdrant" /\ hints_list # <<>>
    THEN QdrantTopkWithFilter(store.entries, q_emb, k, hints_list)
    ELSE IF store.backend = "qdrant"
    THEN QdrantTopk(store.entries, q_emb, k)
    ELSE FileTopk(store.entries, q_emb, k)

\* a bonus that puts every hinted candidate first
HintPriority(cand, hints_list) ==
    IF \E i \in 1..Len(hints_list) : Contains(Lower(cand.name), Lower(hints_list[i]))
    THEN 1000 ELSE 0

\* bonus = 0.01 if hints_list and any(h.lower() in name.lower() for h in hints_list)
Bonus(cand, hints_list) ==
    IF \E i \in 1..Len(hints_list) : Contains(Lower(cand.name), Lower(hints_list[i]))
    THEN HintBonus ELSE 0

\* biased.sort(key=lambda x: x[1], reverse=True); topk = [c for c, _ in biased]
BiasSort(topk, hints_list) ==
    LET sorted == SortDesc([i \in 1..Len(topk) |->
                      <<topk[i].similarity + Bonus(topk[i], hints_list), topk[i]>>])
    IN [i \in 1..Len(sorted) |-> sorted[i][2]]

\* the "Overall" block: the re-sorted list and best_overall
Overall(store, q_emb, k, th, hints_list) ==
    LET found == EndpointSearch(store, q_emb, k, hints_list)
    IN IF found = <<>> THEN [best |-> NoCand, topk |-> <<>>]
       ELSE LET topk == BiasSort(found, hints_list)
            IN [best |-> IF topk[1].similarity >= th THEN topk[1] ELSE NoCand,
                topk |-> topk]

\* the body of the loop over seg_list: best before the bias, kept when the first
\* candidate of the re-sorted list is below the threshold
Segment(store, emb, k, th, hints_list) ==
    LET found == EndpointSearch(store, emb, k, hints_list)
        best0 == IF found # <<>> /\ found[1].similarity >= th THEN found[1] ELSE NoCand
    IN IF found = <<>> THEN [best |-> best0, topk |-> found]
       ELSE LET topk == BiasSort(found, hints_list)
            IN [best |-> IF topk[1].similarity >= th THEN topk[1] ELSE best0,
                topk |-> topk]

EffThreshold(req) == IF req.threshold = <<>> THEN SpeakerSimThreshold ELSE req.threshold[1]
EffTopK(req) == IF req.top_k = <<>> \/ req.top_k[1] <= 0 THEN TopKDefault ELSE req.top_k[1]

IdentifyResponse(store, req) ==
    LET th == EffThreshold(req)
        k == EffTopK(req)
        ov == Overall(store, req.q, k, th, req.hints)
    IN [overall |-> ov.best, topk_overall |-> ov.topk,
        segments |-> [j \in 1..Len(req.segs) |-> Segment(store, req.segs[j], k, th, req.hints)]]

\* the scanned entries: ids in scan order, every embedding L2-normalized by _scan
EntryChoices == [name : ProfileNames, voice : Voices]
EntryLists == UNION {[1..n -> EntryChoices] : n \in 0..MaxProfiles}
MkEntries(l) == [i \in 1..Len(l) |-> [id |-> i, name |-> l[i].name, emb |-> L2Normalize(UnitEmb(l[i].voice))]]

IdRequests == [q : {UnitEmb(v) : v \in Voices}, hints : HintLists, threshold : Thresholds,
               top_k : {<<>>},
               segs : UNION {[1..n -> {UnitEmb(v) : v \in Voices}] : n \in 0..MaxIdSegs}]

InitIdent ==
    /\ id_pc = "call"
    /\ id_store \in [backend : {"file", "qdrant"}, entries : {MkEntries(l) : l \in EntryLists}]
    /\ id_req \in IdRequests
    /\ id_resp = [overall |-> NoCand, topk_overall |-> <<>>, segments |-> <<>>]
    /\ NotIdIdle

\* POST /identify: one request handled against the store
Identify ==
    /\ id_pc = "call"
    /\ id_resp' = IdentifyResponse(id_store, id_req)
    /\ id_pc' = "done"
    /\ UNCHANGED <<id_store, id_req, NotIdVars>>

NextIdent == Identify
SpecIdent == InitIdent /\ [][NextIdent]_vars


(***************************************************************************)
(* The hint re-sort of the identify endpoint on its own: the block that    *)
(* adds the bonus to the candidates of a search and sorts them again, used *)
(* for the overall list and for the list of every segment.                 *)
(***************************************************************************)
MaxCands == 3
\* similarities in thousandths: far apart, and apart by less than, exactly, and more than the bonus
BiasSims == {800, 805, 810, 821, 910}
BiasCands ==
    {l \in UNION {[1..n -> [name : ProfileNames, similarity : BiasSims]] : n \in 0..MaxCands} :
        \A i \in 1..(Len(l) - 1) : l[i].similarity >= l[i + 1].similarity}
WithIds(l) == [i \in 1..Len(l) |-> Cand([id |-> i, name |-> l[i].name], l[i].similarity)]

InitBias ==
    /\ bs_pc = "call"
    /\ bs_in \in [cands : {WithIds(l) : l \in BiasCands}, hints : HintLists]
    /\ bs_out = <<>>
    /\ NotBsIdle

\* identify_endpoint, lines 522-531 and 555-563
HintResort ==
    /\ bs_pc = "call"
    /\ bs_out' = BiasSort(bs_in.cands, bs_in.hints)
    /\ bs_pc' = "done"
    /\ UNCHANGED <<bs_in, NotBsVars>>

NextBias == HintResort
SpecBias == InitBias /\ [][NextBias]_vars


(***************************************************************************)
(* The identify endpoint with failing segments: the embedding of a segment *)
(* gives a vector (the zero vector for an empty slice) or raises, and the  *)
(* search of the Qdrant store succeeds or fails.  The endpoint has one     *)
(* try block around the whole request.                                     *)
(***************************************************************************)
MaxRunSegs == 2
RunEmbs == {UnitEmb(v) : v \in Voices} \cup {ZeroEmb}
\* start_ms, end_ms of a segment: 600 ms long, empty, and reversed
RunSpans == {<<0, 600>>, <<1000, 1000>>, <<1000, 900>>}
Degenerate(span) == span[2] <= span[1]
\* emb is what the encoder gives for the slice; an empty slice is not encoded,
\* an encoder that raises gives nothing, and then no lookup is made
RunSegs(backend) ==
    {g \in [span : RunSpans, emb : RunEmbs, embed_ok : BOOLEAN,
            lookup_ok : IF backend = "qdrant" THEN BOOLEAN ELSE {TRUE}] :
        /\ Degenerate(g.span) => (g.emb = ZeroEmb /\ g.embed_ok)
        /\ ~g.embed_ok => (g.emb = ZeroEmb /\ g.lookup_ok)}
\* the whole-file embedding of the request
RunQueries == {UnitEmb(1)}

\* end_ms - start_ms, unclamped
SignedDuration(span) == span[2] - span[1]

\* dur = max(0, en - st)
SegDuration(span) == Max(0, span[2] - span[1])

\* _embed_file_segment with _slice_ms: zeros for an empty slice
EmbedFileSegment(seg) == IF Degenerate(seg.span) THEN ZeroEmb ELSE seg.emb
RunEntryLists == UNION {[1..n -> EntryChoices] : n \in 1..2}

\* QdrantSpeakerDB.topk: [] when the search raises
SegmentLookup(store, seg, k, th) ==
    IF seg.lookup_ok THEN Segment(store, EmbedFileSegment(seg), k, th, <<>>)
    ELSE [best |-> NoCand, topk |-> <<>>]

\* the literal "Unbekannt", as a name
UnknownLabel == <<"Unbekannt">>

\* _seg_speaker_name(seg) or "Unbekannt": a result of the segment loop has no
\* "speaker" and no "name" key, so the name of best, else of the first
\* candidate of topk, else nothing
SegSpeakerName(seg) ==
    IF seg.best # NoCand /\ seg.best.name # <<>> THEN seg.best.name
    ELSE IF seg.topk # <<>> /\ seg.topk[1].name # <<>> THEN seg.topk[1].name
    ELSE UnknownLabel

\* the key of the segment in _calc_speaking_shares: the name of best, else "Unbekannt"
ShareKey(seg) ==
    IF seg.best # NoCand /\ seg.best.name # <<>> THEN seg.best.name ELSE UnknownLabel

\* the try block of identify_endpoint: the first exception ends the request
RunResponse(store, req) ==
    IF \E j \in 1..Len(req.segs) : ~req.segs[j].embed_ok
    THEN [status |-> 500, overall |-> NoCand, segments |-> <<>>, labels |-> <<>>]
    ELSE LET segs == [j \in 1..Len(req.segs) |->
                         SegmentLookup(store, req.segs[j], TopKDefault, SpeakerSimThreshold)]
         IN [status |-> 200,
             overall |-> Overall(store, req.q, TopKDefault, SpeakerSimThreshold, <<>>).best,
             segments |-> segs,
             labels |-> [j \in 1..Len(segs) |->
                            [speaker |-> SegSpeakerName(segs[j]), bucket |-> ShareKey(segs[j]),
                             duration_ms |-> SegDuration(req.segs[j].span)]]]

InitRun ==
    /\ ir_pc = "call"
    /\ ir_store \in [backend : {"file", "qdrant"}, entries : {MkEntries(l) : l \in RunEntryLists}]
    /\ ir_req \in [q : RunQueries,
                   segs : UNION {[1..n -> RunSegs(ir_store.backend)] : n \in 0..MaxRunSegs}]
    /\ ir_resp = NoAnswer
    /\ NotIrIdle

\* POST /identify with segments_json
IdentifyRun ==
    /\ ir_pc = "call"
    /\ ir_resp' = RunResponse(ir_store, ir_req)
    /\ ir_pc' = "done"
    /\ UNCHANGED <<ir_store, ir_req, NotIrVars>>

NextRun == IdentifyRun
SpecRun == InitRun /\ [][NextRun]_vars


(***************************************************************************)
(* FileSpeakerDB.topk on its own. The id of a profile is its rank of       *)
(* insertion (1 is the oldest); the entries are in the order of the last   *)
(* _scan, the order in which glob lists the directory, which is any order. *)
(***************************************************************************)
TopKs == 0..MaxProfiles
Injective(f) == \A i, j \in DOMAIN f : f[i] = f[j] => i = j
ScanOrders(n) == {o \in [1..n -> 1..n] : Injective(o)}
RankEntries ==
    UNION {{[i \in 1..n |-> [id |-> o[i], name |-> Anna, emb |-> L2Normalize(UnitEmb(v[i]))]] :
                o \in ScanOrders(n), v \in [1..n -> Voices]} : n \in 0..MaxProfiles}

InitRank ==
    /\ rk_pc = "call"
    /\ rk_in \in [entries : RankEntries, q_emb : {UnitEmb(v) : v \in Voices}, top_k : TopKs]
    /\ rk_out = <<>>
    /\ NotRkIdle

Topk ==
    /\ rk_pc = "call"
    /\ rk_out' = FileTopk(rk_in.entries, rk_in.q_emb, rk_in.top_k)
    /\ rk_pc' = "done"
    /\ UNCHANGED <<rk_in, NotRkVars>>

NextRank == Topk
SpecRank == InitRank /\ [][NextRank]_vars


(***************************************************************************)
(* Speaker profiles in Qdrant: routers/speakers.py                         *)
(*                                                                         *)
(* A point is a payload and a vector. The vector of an enrollment is the   *)
(* normalized mean of the embeddings of its usable files; its direction is *)
(* given by how many files of each voice went into the mean, in lowest     *)
(* terms. The collection is a function from the ids present to the points. *)
(***************************************************************************)
MaxOps == 2
MaxFiles == 2
\* the embedding of one file: a voice, or nothing usable (norm 0)
EnrollVoices == {"v0", "v1"}
Silent == "silent"
\* a file on which the conversion or the embedding raises
Broken == "broken"
FileOrder(f) == IF f = "v0" THEN 0 ELSE IF f = "v1" THEN 1 ELSE IF f = Silent THEN 2 ELSE 3
\* the files of one call; their order changes neither the mean nor the sources,
\* and the first file that raises ends the call, so one such file is enough
FileLists ==
    {l \in UNION {[1..n -> EnrollVoices \cup {Silent, Broken}] : n \in 0..MaxFiles} :
        /\ \A i \in 1..(Len(l) - 1) : FileOrder(l[i]) <= FileOrder(l[i + 1])
        /\ Cardinality({i \in 1..Len(l) : l[i] = Broken}) <= 1}

\* a given spk_id, and the ids "spk_<uuid>" drawn for new speakers
SpkA == <<"s", "p", "k", "a">>
FreshIds == <<<<"u", "1">>>>
\* the form fields; <<>> is None (and the empty string)
EnrollNames == {<<>>, Anna}
EnrollSpkIds == {<<>>, SpkA}
EnrollTags == {{}, {"t1"}}
UploadSource == "upload"

RECURSIVE Gcd(_, _)
Gcd(a, b) == IF b = 0 THEN a ELSE Gcd(b, a % b)

CountOf(files, v) == Cardinality({i \in 1..Len(files) : files[i] = v})
Usable(files) == SelectSeq(files, LAMBDA f : f \in EnrollVoices)
Raises(files) == \E i \in 1..Len(files) : files[i] = Broken

\* V.mean(axis=0) and the division by the norm
MeanVector(vecs) ==
    LET c0 == CountOf(vecs, "v0")
        c1 == CountOf(vecs, "v1")
        g == Gcd(c0, c1)
    IN IF g = 0 THEN <<0, 0>> ELSE <<c0 \div g, c1 \div g>>

\* every call with files is taken as a success
AcceptAnyOutcome(files) == IF files = <<>> THEN 400 ELSE 200

\* the status the enroll endpoint answers with: 400 without audio material,
\* 500 when a conversion or an embedding raises, 400 without a usable
\* embedding, and 200 after the upsert
EnrollOutcome(files) ==
    IF files = <<>> THEN 400
    ELSE IF Raises(files) THEN 500
    ELSE IF Usable(files) = <<>> THEN 400
    ELSE 200

\* the samples of the call alone
CallSampleCount(existing, sources) == Max(1, Len(sources) - Len(existing.sources))

\* int(existing_payload.get("sample_count") or 0) + max(1, len(sources)),
\* sources being the merged list at that point
MergedSampleCount(existing, sources) == existing.sample_count + Max(1, Len(sources))

\* _upsert_speaker: the point written for spk_id
UpsertSpeaker(points, spk_id, name, tags, vector, sources, merge, now) ==
    LET exists == spk_id \in DOMAIN points
        existing == points[spk_id].payload
    IN IF merge /\ exists
       THEN LET name1 == IF name # <<>> THEN name
                         ELSE IF existing.name # <<>> THEN existing.name ELSE spk_id
                sources1 == existing.sources \o sources
            IN [payload |-> [existing EXCEPT
                                !.spk_id = spk_id,
                                !.name = name1,
                                !.tags = existing.tags \cup tags,
                                !.sources = sources1,
                                !.sample_count = MergedSampleCount(existing, sources1),
                                !.updated_at = now],
                vector |-> vector]
       ELSE [payload |-> [spk_id |-> spk_id,
                          name |-> IF name # <<>> THEN name ELSE spk_id,
                          tags |-> tags,
                          sources |-> sources,
                          sample_count |-> Max(1, Len(sources)),
                          created_at |-> IF exists THEN existing.created_at ELSE now,
                          updated_at |-> now],
             vector |-> vector]

InitEnroll ==
    /\ en_points = <<>>
    /\ en_now = 0
    /\ en_fresh = 0
    /\ en_ops = 0
    /\ en_last = NoRequest
    /\ NotEnIdle

\* POST /speakers/enroll
EnrollSpeaker ==
    /\ en_ops < MaxOps
    /\ \E name \in EnrollNames, spk_id \in EnrollSpkIds, tags \in EnrollTags,
          merge \in BOOLEAN, files \in FileLists :
          /\ spk_id = <<>> => en_fresh < Len(FreshIds)
          \* a drawn id is new to the collection, where merge changes nothing
          /\ spk_id = <<>> => merge
          \* name, tags and merge are first read after the embeddings (lines 413-416)
          /\ EnrollOutcome(files) # 200 => (name = <<>> /\ tags = {} /\ merge)
          /\ LET vecs == Usable(files)
                 sources_info == [i \in 1..Len(files) |->
                                     [kind |-> UploadSource, filename |-> en_ops]]
                 final_spk_id == IF spk_id # <<>> THEN spk_id ELSE FreshIds[en_fresh + 1]
                 final_name == IF name # <<>> THEN name ELSE final_spk_id
                 vmean == MeanVector(vecs)
                 req == [op |-> "enroll", spk_id |-> spk_id, name |-> name, tags |-> tags,
                         merge |-> merge, n |-> Len(files), files |-> files,
                         vector |-> <<>>, status |-> EnrollOutcome(files)]
             IN IF req.status # 200
                THEN /\ en_last' = req
                     /\ UNCHANGED <<en_points, en_fresh>>
                ELSE /\ en_points' = PutAt(en_points, final_spk_id,
                                         UpsertSpeaker(en_points, final_spk_id, final_name, tags,
                                                       vmean, sources_info, merge, en_now))
                     /\ en_fresh' = IF spk_id # <<>> THEN en_fresh ELSE en_fresh + 1
                     /\ en_last' = [req EXCEPT !.spk_id = final_spk_id, !.vector = vmean]
    /\ en_ops' = en_ops + 1
    /\ en_now' = en_now + 1
    /\ UNCHANGED NotEnVars

\* GET /speakers/{spk_id}
GetSpeaker ==
    /\ en_ops < MaxOps
    /\ \E spk_id \in {SpkA} :
          en_last' = [op |-> "get", spk_id |-> spk_id, name |-> <<>>, tags |-> {},
                      merge |-> FALSE, n |-> 0, files |-> <<>>, vector |-> <<>>,
                      status |-> IF spk_id \in DOMAIN en_points THEN 200 ELSE 404]
    /\ en_ops' = en_ops + 1
    /\ en_now' = en_now + 1
    /\ UNCHANGED <<en_points, en_fresh, NotEnVars>>

\* PUT /speakers/{spk_id}
UpdateSpeaker ==
    /\ en_ops < MaxOps
    /\ \E spk_id \in {SpkA}, name \in {<<>>, Ben}, tags \in {<<>>, <<{}>>} :
          IF spk_id \notin DOMAIN en_points
          THEN /\ en_last' = [op |-> "update", spk_id |-> spk_id, name |-> <<>>, tags |-> {},
                                 merge |-> FALSE, n |-> 0, files |-> <<>>,
                              vector |-> <<>>, status |-> 404]
               /\ UNCHANGED en_points
          ELSE LET pl == en_points[spk_id].payload
                   updated == [pl EXCEPT !.spk_id = spk_id,
                                         !.name = IF name # <<>> THEN name ELSE pl.name,
                                         !.tags = IF tags # <<>> THEN tags[1] ELSE pl.tags,
                                         !.updated_at = en_now]
               IN /\ en_points' = PutAt(en_points, spk_id,
                                      [payload |-> updated, vector |-> en_points[spk_id].vector])
                  /\ en_last' = [op |-> "update", spk_id |-> spk_id, name |-> <<>>, tags |-> {},
                                 merge |-> FALSE, n |-> 0, files |-> <<>>,
                                 vector |-> <<>>, status |-> 200]
    /\ en_ops' = en_ops + 1
    /\ en_now' = en_now + 1
    /\ UNCHANGED <<en_fresh, NotEnVars>>

\* DELETE /speakers/{spk_id}
DeleteSpeaker ==
    /\ en_ops < MaxOps
    /\ \E spk_id \in {SpkA} :
          /\ en_points' = DropAt(en_points, spk_id)
          /\ en_last' = [op |-> "delete", spk_id |-> spk_id, name |-> <<>>, tags |-> {},
                         merge |-> FALSE, n |-> 0, files |-> <<>>,
                         vector |-> <<>>, status |-> 200]
    /\ en_ops' = en_ops + 1
    /\ en_now' = en_now + 1
    /\ UNCHANGED <<en_fresh, NotEnVars>>

NextEnroll == EnrollSpeaker \/ GetSpeaker \/ UpdateSpeaker \/ DeleteSpeaker
SpecEnroll == InitEnroll /\ [][NextEnroll]_vars


(***************************************************************************)
(* Enrollment jobs: POST /speakers/enroll/async queues a job and           *)
(* _do_enroll_job runs it as a background task in the thread pool, so      *)
(* several jobs run at once.  _upsert_speaker holds no lock: it retrieves  *)
(* the point, computes the payload from what it retrieved, and upserts.    *)
(* The two requests to the collection are separate steps here.             *)
(***************************************************************************)
MaxJobs == 2
SpkB == <<"s", "p", "k", "b">>
JobSpkIds == {SpkA, SpkB}
JobFiles == {<<f>> : f \in EnrollVoices \cup {Silent, Broken}}
UrlSource == "url"
NoPoint == <<>>

\* The profile of SpkA that an earlier enrollment left in the collection.
EarlierPoint ==
    UpsertSpeaker(<<>>, SpkA, SpkA, {}, MeanVector(<<"v0">>),
                  <<[kind |-> UrlSource, url |-> 0]>>, TRUE, 0)

InitJobs ==
    /\ jb_pc = <<>>
    /\ jb_req = <<>>
    /\ jb_seen = <<>>
    /\ jb_points \in {<<>>, PutAt(<<>>, SpkA, EarlierPoint)}
    /\ jb_now = 1
    /\ NotJbIdle

\* POST /speakers/enroll/async
EnrollAsync ==
    /\ Len(jb_pc) < MaxJobs
    /\ \E spk_id \in JobSpkIds, merge \in BOOLEAN, files \in JobFiles :
          jb_req' = Append(jb_req, [spk_id |-> spk_id, merge |-> merge, files |-> files])
    /\ jb_pc' = Append(jb_pc, "queued")
    /\ jb_seen' = Append(jb_seen, [points |-> NoPoint, now |-> 0])
    /\ UNCHANGED <<jb_points, jb_now, NotJbVars>>

\* _do_enroll_job up to the retrieve of _upsert_speaker
JobRetrieve(p) ==
    /\ jb_pc[p] = "queued"
    /\ LET req == jb_req[p]
       IN IF Raises(req.files) \/ Usable(req.files) = <<>>
          THEN /\ jb_pc' = [jb_pc EXCEPT ![p] = "error"]
               /\ UNCHANGED <<jb_seen, jb_now>>
          ELSE /\ jb_pc' = [jb_pc EXCEPT ![p] = "retrieved"]
               /\ jb_seen' = [jb_seen EXCEPT ![p] =
                                 [points |-> IF req.spk_id \in DOMAIN jb_points
                                             THEN PutAt(<<>>, req.spk_id, jb_points[req.spk_id])
                                             ELSE NoPoint,
                                  now |-> jb_now]]
               /\ jb_now' = jb_now + 1
    /\ UNCHANGED <<jb_req, jb_points, NotJbVars>>

\* _do_enroll_job from the upsert of _upsert_speaker on
JobUpsert(p) ==
    /\ jb_pc[p] = "retrieved"
    /\ LET req == jb_req[p]
           sources_info == [i \in 1..Len(req.files) |-> [kind |-> UrlSource, url |-> p]]
       IN jb_points' = PutAt(jb_points, req.spk_id,
                             UpsertSpeaker(jb_seen[p].points, req.spk_id, req.spk_id, {},
                                           MeanVector(Usable(req.files)), sources_info,
                                           req.merge, jb_seen[p].now))
    /\ jb_pc' = [jb_pc EXCEPT ![p] = "done"]
    /\ UNCHANGED <<jb_req, jb_seen, jb_now, NotJbVars>>

NextJobs ==
    \/ EnrollAsync
    \/ \E p \in DOMAIN jb_pc : JobRetrieve(p)
    \/ \E p \in DOMAIN jb_pc : JobUpsert(p)
SpecJobs == InitJobs /\ [][NextJobs]_vars


(***************************************************************************)
(* FileSpeakerDB of routers/identify.py as a shared object: GET            *)
(* /identify/health is a sync handler and runs refresh_if_changed in the   *)
(* thread pool, while the identify endpoint calls topk from the event      *)
(* loop; other processes write into the directory at any time.  _scan is   *)
(* taken in its steps: clear and list, one load and append per file, and   *)
(* the final reading of the modification time.                             *)
(***************************************************************************)
MaxDisk == 2
MaxWrites == 2
MaxClock == 2
DiskIds == 1..MaxDisk
DiskVoices == {"v0", "v1"}

SetMax(S) == CHOOSE m \in S : \A x \in S : x <= m
SetMin(S) == CHOOSE m \in S : \A x \in S : m <= x

\* FileSpeakerDB._current_mtime: the newest mtime under the root, the root included
CurrentMtime(disk, dir_mtime) ==
    SetMax({dir_mtime} \cup {disk[i].mtime : i \in DOMAIN disk})

RECURSIVE LoadAll(_, _)
LoadAll(disk, ids) ==
    IF ids = {} THEN <<>>
    ELSE LET i == SetMin(ids)
         IN <<[id |-> i, voice |-> disk[i].voice]>> \o LoadAll(disk, ids \ {i})

\* FileSpeakerDB.__init__: the constructor scans the directory once
InitStore ==
    /\ fs_disk \in {<<>>, PutAt(<<>>, 1, [voice |-> "v0", mtime |-> 0])}
    /\ fs_dir_mtime = 0
    /\ fs_clock = 0
    /\ fs_writes = 0
    /\ fs_entries = LoadAll(fs_disk, DOMAIN fs_disk)
    /\ fs_last_mtime = CurrentMtime(fs_disk, fs_dir_mtime)
    /\ fs_pc = "idle"
    /\ fs_todo = {}
    /\ fs_read = NoRead
    /\ fs_full = fs_entries
    /\ fs_flag = "settled"
    /\ NotFsIdle

ClockTick ==
    /\ fs_clock < MaxClock
    /\ fs_clock' = fs_clock + 1
    /\ UNCHANGED <<fs_disk, fs_dir_mtime, fs_writes, fs_entries, fs_last_mtime, fs_pc,
                   fs_todo, fs_read, fs_full, fs_flag, NotFsVars>>

\* Another process adds <id>.npy or overwrites it.
ExternalWrite ==
    /\ fs_writes < MaxWrites
    /\ \E i \in DiskIds, v \in DiskVoices :
          /\ i \in DOMAIN fs_disk => fs_disk[i].voice # v
          /\ fs_disk' = PutAt(fs_disk, i, [voice |-> v, mtime |-> fs_clock])
          /\ fs_dir_mtime' = IF i \in DOMAIN fs_disk THEN fs_dir_mtime ELSE fs_clock
    /\ fs_writes' = fs_writes + 1
    /\ fs_flag' = "written"
    /\ UNCHANGED <<fs_clock, fs_entries, fs_last_mtime, fs_pc, fs_todo, fs_read, fs_full,
                   NotFsVars>>

\* refresh_if_changed up to the listing in _scan
RefreshIfChanged ==
    /\ fs_pc = "idle"
    /\ IF CurrentMtime(fs_disk, fs_dir_mtime) > fs_last_mtime
       THEN /\ fs_entries' = <<>>
            /\ fs_todo' = DOMAIN fs_disk
            /\ fs_pc' = "scan"
            /\ fs_flag' = IF fs_flag = "written" THEN "checking" ELSE fs_flag
       ELSE /\ fs_flag' = IF fs_flag = "written" THEN "settled" ELSE fs_flag
            /\ UNCHANGED <<fs_entries, fs_todo, fs_pc>>
    /\ UNCHANGED <<fs_disk, fs_dir_mtime, fs_clock, fs_writes, fs_last_mtime, fs_read,
                   fs_full, NotFsVars>>

\* _scan: np.load of the next file of the listing, and the append
ScanLoad ==
    /\ fs_pc = "scan"
    /\ fs_todo # {}
    /\ LET i == SetMin(fs_todo)
       IN /\ fs_entries' = Append(fs_entries, [id |-> i, voice |-> fs_disk[i].voice])
          /\ fs_todo' = fs_todo \ {i}
    /\ UNCHANGED <<fs_disk, fs_dir_mtime, fs_clock, fs_writes, fs_last_mtime, fs_pc,
                   fs_read, fs_full, fs_flag, NotFsVars>>

\* _scan: self._last_mtime = self._current_mtime(), and the return
ScanStamp ==
    /\ fs_pc = "scan"
    /\ fs_todo = {}
    /\ fs_last_mtime' = CurrentMtime(fs_disk, fs_dir_mtime)
    /\ fs_pc' = "idle"
    /\ fs_full' = fs_entries
    /\ fs_flag' = IF fs_flag = "checking" THEN "settled" ELSE fs_flag
    /\ UNCHANGED <<fs_disk, fs_dir_mtime, fs_clock, fs_writes, fs_entries, fs_todo,
                   fs_read, NotFsVars>>

\* FileSpeakerDB.topk in another thread: the entries it iterates over
StoreTopk ==
    /\ fs_read' = [called |-> TRUE, observed |-> fs_entries, complete |-> fs_full]
    /\ UNCHANGED <<fs_disk, fs_dir_mtime, fs_clock, fs_writes, fs_entries, fs_last_mtime,
                   fs_pc, fs_todo, fs_full, fs_flag, NotFsVars>>

NextStore ==
    ClockTick \/ ExternalWrite \/ RefreshIfChanged \/ ScanLoad \/ ScanStamp \/ StoreTopk
SpecStore == InitStore /\ [][NextStore]_vars


(***************************************************************************)
(* The single-file enrollment store: services/spk_embed.py, with the       *)
(* FileSpeakerDB of routers/identify.py scanning the same directory.       *)
(*                                                                         *)
(* An id is the uuid of an enrollment, numbered in the order drawn.        *)
(***************************************************************************)
MaxSpk == 2
MaxSpkOps == 3
SpkIds == 1..MaxSpk
\* audio_to_embedding returns the mean of the encoder output as it is
RawEmbs == [dir : {0, 1}, mag : {"raw", "unit"}]

\* what a COSINE collection keeps of an upserted vector: the vector, which the
\* server may store normalized
QdrantStored(vector) == {vector, L2Normalize(vector)}

InitSpk ==
    /\ sp_cfg \in {"file", "qdrant"}
    /\ sp_npy = <<>>
    /\ sp_index = <<>>
    /\ sp_qpoints = <<>>
    /\ sp_entries = <<>>
    /\ sp_written = <<>>
    /\ sp_ops = 0
    /\ sp_last = NoCall
    /\ NotSpIdle

\* _get_qdrant() gives a client and the call on it succeeds
QdrantOutcomes == IF sp_cfg = "qdrant" THEN BOOLEAN ELSE {FALSE}

\* enroll_speaker(name, path): Qdrant when configured and the upsert succeeds,
\* else the file store
SpkEnrollSpeaker ==
    /\ sp_ops < MaxSpkOps
    /\ Cardinality(DOMAIN sp_written) < MaxSpk
    /\ \E name \in ProfileNames, emb \in RawEmbs, qdrant_ok \in QdrantOutcomes :
          LET spk_id == Cardinality(DOMAIN sp_written) + 1
          IN /\ IF qdrant_ok
                THEN /\ \E stored \in QdrantStored(emb) :
                            sp_qpoints' = PutAt(sp_qpoints, spk_id,
                                                [name |-> name, vector |-> stored])
                     /\ UNCHANGED <<sp_npy, sp_index>>
                ELSE /\ sp_npy' = PutAt(sp_npy, spk_id, emb)
                     /\ sp_index' = Append(sp_index, [id |-> spk_id, name |-> name])
                     /\ UNCHANGED sp_qpoints
             /\ sp_written' = PutAt(sp_written, spk_id, [emb |-> emb, live |-> TRUE])
             /\ sp_last' = [op |-> "enroll", id |-> spk_id, emb |-> <<emb>>, ok |-> TRUE]
    /\ sp_ops' = sp_ops + 1
    /\ UNCHANGED <<sp_cfg, sp_entries, NotSpVars>>

\* delete_speaker(spk_id)
SpkDeleteSpeaker ==
    /\ sp_ops < MaxSpkOps
    /\ \E spk_id \in SpkIds, qdrant_ok \in QdrantOutcomes :
          LET in_index == \E i \in 1..Len(sp_index) : sp_index[i].id = spk_id
          IN /\ sp_qpoints' = IF qdrant_ok THEN DropAt(sp_qpoints, spk_id) ELSE sp_qpoints
             /\ sp_index' = SelectSeq(sp_index, LAMBDA x : x.id # spk_id)
             /\ sp_npy' = DropAt(sp_npy, spk_id)
             /\ sp_written' = IF spk_id \in DOMAIN sp_written
                              THEN [sp_written EXCEPT ![spk_id].live = FALSE]
                              ELSE sp_written
             /\ sp_last' = [op |-> "delete", id |-> spk_id, emb |-> <<>>,
                            ok |-> qdrant_ok \/ in_index]
    /\ sp_ops' = sp_ops + 1
    /\ UNCHANGED <<sp_cfg, sp_entries, NotSpVars>>

\* load_embedding(spk_id)
SpkLoadEmbedding ==
    /\ sp_ops < MaxSpkOps
    /\ \E spk_id \in SpkIds, qdrant_ok \in QdrantOutcomes :
          sp_last' = [op |-> "load", id |-> spk_id,
                      emb |-> IF qdrant_ok /\ spk_id \in DOMAIN sp_qpoints
                              THEN <<sp_qpoints[spk_id].vector>>
                              ELSE IF spk_id \in DOMAIN sp_npy THEN <<sp_npy[spk_id]>>
                              ELSE <<>>,
                      ok |-> TRUE]
    /\ sp_ops' = sp_ops + 1
    /\ UNCHANGED <<sp_cfg, sp_npy, sp_index, sp_qpoints, sp_entries, sp_written, NotSpVars>>

\* FileSpeakerDB._scan: the <id>.npy files in the order glob lists them, each
\* embedding L2-normalized, the name the id when there is no <id>.json
SpkScan ==
    /\ sp_ops < MaxSpkOps
    /\ \E order \in {o \in [1..Cardinality(DOMAIN sp_npy) -> DOMAIN sp_npy] : Injective(o)} :
          sp_entries' = [i \in 1..Len(order) |->
                            [id |-> order[i], name |-> order[i],
                             emb |-> L2Normalize(sp_npy[order[i]])]]
    /\ sp_last' = [op |-> "scan", id |-> 0, emb |-> <<>>, ok |-> TRUE]
    /\ sp_ops' = sp_ops + 1
    /\ UNCHANGED <<sp_cfg, sp_npy, sp_index, sp_qpoints, sp_written, NotSpVars>>

NextSpk == SpkEnrollSpeaker \/ SpkDeleteSpeaker \/ SpkLoadEmbedding \/ SpkScan
SpecSpk == InitSpk /\ [][NextSpk]_vars


(***************************************************************************)
(* The clusterer of the unsupervised path, from its description: assign.   *)
(*                                                                         *)
(* Embeddings are integer vectors of the plane, so that every cosine is    *)
(* compared exactly. A centroid is kept as the sum of its observations and *)
(* their count; the running mean is the sum divided by the count, and has  *)
(* the direction of the sum. Cluster ids count from 0; centroid j is at    *)
(* position j + 1 of the list.                                             *)
(***************************************************************************)
MaxAssign == 4
\* the embeddings fed to assign: none is the zero vector
ClusterEmbs == {<<4, 0>>, <<3, 4>>, <<2, 1>>, <<0, 4>>, <<0 - 4, 0>>}
\* new_cluster_threshold, 0.75, as a fraction
ThresholdNum == 3
ThresholdDen == 4

Dot(a, b) == a[1] * b[1] + a[2] * b[2]
Norm2(a) == Dot(a, a)
Sign(x) == IF x > 0 THEN 1 ELSE IF x < 0 THEN 0 - 1 ELSE 0

\* cos(e, c1) < cos(e, c2), both centroids normalized before the comparison
CosLess(e, c1, c2) ==
    Sign(Dot(e, c1)) * Dot(e, c1) * Dot(e, c1) * Norm2(c2)
        < Sign(Dot(e, c2)) * Dot(e, c2) * Dot(e, c2) * Norm2(c1)

\* the distance 1 - cos(e, c) taken for the similarity: cos(e, c) > 1 - threshold
DistanceBelowThreshold(e, c) ==
    /\ Dot(e, c) > 0
    /\ ThresholdDen * ThresholdDen * Dot(e, c) * Dot(e, c)
           > (ThresholdDen - ThresholdNum) * (ThresholdDen - ThresholdNum) * Norm2(e) * Norm2(c)

\* similarity[j] < new_cluster_threshold
BelowThreshold(e, c) ==
    \/ Dot(e, c) < 0
    \/ ThresholdDen * ThresholdDen * Dot(e, c) * Dot(e, c)
           < ThresholdNum * ThresholdNum * Norm2(e) * Norm2(c)

\* the arg-max of the similarities; on equal similarity the lowest cluster id
ArgMax(e, centroids) ==
    CHOOSE j \in 1..Len(centroids) :
        /\ \A k \in 1..Len(centroids) : ~CosLess(e, centroids[j].sum, centroids[k].sum)
        /\ \A k \in 1..(j - 1) : CosLess(e, centroids[k].sum, centroids[j].sum)

\* assign(embedding): the centroids afterwards and the cluster id returned
Assign(centroids, e) ==
    IF centroids = <<>>
    THEN [centroids |-> <<[sum |-> e, count |-> 1]>>, id |-> 0, created |-> TRUE]
    ELSE LET j == ArgMax(e, centroids)
         IN IF BelowThreshold(e, centroids[j].sum)
            THEN [centroids |-> Append(centroids, [sum |-> e, count |-> 1]),
                  id |-> Len(centroids), created |-> TRUE]
            ELSE [centroids |-> [centroids EXCEPT
                                    ![j] = [sum |-> <<centroids[j].sum[1] + e[1],
                                                      centroids[j].sum[2] + e[2]>>,
                                            count |-> centroids[j].count + 1]],
                  id |-> j - 1, created |-> FALSE]

SeqCountSum(centroids) == SeqSum([i \in 1..Len(centroids) |-> centroids[i].count])

InitCluster ==
    /\ cl_centroids = <<>>
    /\ cl_prev = NoAssign
    /\ cl_last = NoAssign
    /\ NotClIdle

\* one segment's embedding is fed to the clusterer
AssignCall ==
    /\ SeqCountSum(cl_centroids) < MaxAssign
    /\ \E e \in ClusterEmbs :
          LET r == Assign(cl_centroids, e)
          IN /\ cl_centroids' = r.centroids
             /\ cl_last' = [emb |-> e, id |-> r.id, created |-> r.created, called |-> TRUE]
    /\ cl_prev' = cl_last
    /\ UNCHANGED NotClVars

NextCluster == AssignCall
SpecCluster == InitCluster /\ [][NextCluster]_vars

(***************************************************************************)
(* Claims about the segment builder                                        *)
(***************************************************************************)
SegDur(s) == s.end_ms - s.start_ms
ScenarioRaw == <<[start_ms |-> 0, end_ms |-> 2000], [start_ms |-> 2100, end_ms |-> 4000]>>

\* C2: the returned list is ordered by start, no two of its intervals overlap, and
\* every interval has end_ms > start_ms and lasts at least min_speech_ms.
C2_OutputOrderedDisjointLong ==
    seg_pc = "done" =>
        LET out == seg_res.out IN
        /\ \A i \in 1..(Len(out) - 1) : out[i].start_ms <= out[i + 1].start_ms
        /\ \A i, j \in 1..Len(out) : i < j => out[i].end_ms <= out[j].start_ms
        /\ \A i \in 1..Len(out) : out[i].end_ms > out[i].start_ms
                                  /\ SegDur(out[i]) >= seg_in.min_ms

\* C2 witness: three raw intervals, two of them merged, one dropped as too short
C2_Witness ==
    /\ seg_pc = "done"
    /\ Len(seg_res.raw) = 3 /\ Len(seg_res.merged) = 2 /\ Len(seg_res.out) = 1
    /\ seg_in.min_ms > 0

\* raw intervals i and i + 1 ended up inside one merged interval
MergedTogether(i) ==
    \E k \in 1..Len(seg_res.merged) :
        /\ seg_res.merged[k].start_ms <= seg_res.raw[i].start_ms
        /\ seg_res.raw[i + 1].end_ms <= seg_res.merged[k].end_ms

\* C3: consecutive intervals are merged exactly when their gap is <= collar_ms;
\* [(0,2000),(2100,4000)] becomes [(0,4000)] with collar 200 and stays with collar 50.
C3_MergedIffGapWithinCollar ==
    seg_pc = "done" =>
        /\ \A i \in 1..(Len(seg_res.raw) - 1) :
              MergedTogether(i) <=>
                  (seg_res.raw[i + 1].start_ms - seg_res.raw[i].end_ms <= seg_in.collar_ms)
        /\ (seg_res.raw = ScenarioRaw /\ seg_in.collar_ms = 200)
              => seg_res.out = <<[start_ms |-> 0, end_ms |-> 4000]>>
        /\ (seg_res.raw = ScenarioRaw /\ seg_in.collar_ms = 50)
              => seg_res.out = ScenarioRaw

\* C3 witness: the scenario's two intervals, merged by a collar of 200 ms
C3_Witness ==
    /\ seg_pc = "done"
    /\ seg_res.raw = ScenarioRaw /\ seg_in.collar_ms = 200
    /\ seg_res.out = <<[start_ms |-> 0, end_ms |-> 4000]>>

(***************************************************************************)
(* Claims about the speaking shares                                        *)
(***************************************************************************)
Percent10Sum(shares) == SeqSum([i \in 1..Len(shares) |-> shares[i].percent10])
MsSum(shares) == SeqSum([i \in 1..Len(shares) |-> shares[i].ms])

\* the duration of the segments whose best name (or "Unbekannt") is name
BucketMsOf(segs, name) ==
    SeqSum([i \in 1..Len(segs) |-> IF BucketKey(segs[i]) = name THEN ClampedDur(segs[i]) ELSE 0])

ScenarioShareSegs ==
    <<[start_ms |-> 0, end_ms |-> 600, name |-> "A"],
      [start_ms |-> 600, end_ms |-> 900, name |-> "B"],
      [start_ms |-> 900, end_ms |-> 1000, name |-> ""]>>
ScenarioShares ==
    <<[name |-> "A", ms |-> 600, percent10 |-> 600],
      [name |-> "B", ms |-> 300, percent10 |-> 300],
      [name |-> Unknown, ms |-> 100, percent10 |-> 100]>>

\* C1: for any non-empty list of labeled segments (each with end_ms > start_ms) the
\* returned percent values sum to 100 (within 1e-6; in tenths of a percent, to 1000).
C1_PercentsSumTo100 ==
    (/\ sh_pc = "done"
     /\ sh_in.segs # <<>>
     /\ \A j \in 1..Len(sh_in.segs) : sh_in.segs[j].end_ms > sh_in.segs[j].start_ms)
        => Percent10Sum(sh_out) = 1000

BestOf(ranked, th) ==
    IF ranked # <<>> /\ ranked[1].similarity >= th THEN ranked[1] ELSE NoCand

\* C4: for the whole file and for every segment, best is the first element of
\* the returned ranked list when that list is non-empty and its first similarity
\* is at least the threshold, and None otherwise.
C4_BestIsFirstAboveThreshold ==
    id_pc = "done" =>
        /\ id_resp.overall = BestOf(id_resp.topk_overall, EffThreshold(id_req))
        /\ \A j \in 1..Len(id_resp.segments) :
               id_resp.segments[j].best = BestOf(id_resp.segments[j].topk, EffThreshold(id_req))

InHints(name, hints) == \E i \in 1..Len(hints) : hints[i] = name

AllHinted(cands, hints) == \A i \in 1..Len(cands) : InHints(cands[i].name, hints)

\* C10: with name hints, every candidate the search of the identification returns
\* is a profile whose name is one of the hints, on the file store and on Qdrant;
\* without hints the filtered search returns what the unfiltered search returns.
C10_FilteredSearchOnlyHinted ==
    id_pc = "done" =>
        /\ id_req.hints # <<>> =>
               /\ AllHinted(id_resp.topk_overall, id_req.hints)
               /\ \A j \in 1..Len(id_resp.segments) :
                      AllHinted(id_resp.segments[j].topk, id_req.hints)
        /\ QdrantTopkWithFilter(id_store.entries, id_req.q, EffTopK(id_req), <<>>)
               = QdrantTopk(id_store.entries, id_req.q, EffTopK(id_req))

(***************************************************************************)
(* Claims about FileSpeakerDB.topk                                         *)
(***************************************************************************)
ScanPos(id) == CHOOSE i \in 1..Len(rk_in.entries) : rk_in.entries[i].id = id

NonIncreasing(cands) ==
    \A i, j \in 1..Len(cands) : i < j => cands[i].similarity >= cands[j].similarity

\* C9 as stated: the candidates are ordered by non-increasing similarity, and
\* candidates of equal similarity are in the order of insertion, oldest first.
C9_TiesInInsertionOrder ==
    rk_pc = "done" =>
        /\ NonIncreasing(rk_out)
        /\ \A i, j \in 1..Len(rk_out) :
               (i < j /\ rk_out[i].similarity = rk_out[j].similarity)
                   => rk_out[i].id < rk_out[j].id

\* C9, amended: the candidates are ordered by non-increasing similarity, and
\* candidates of equal similarity are in the order of the scanned entries.
C9_TiesInScanOrder ==
    rk_pc = "done" =>
        /\ NonIncreasing(rk_out)
        /\ \A i, j \in 1..Len(rk_out) :
               (i < j /\ rk_out[i].similarity = rk_out[j].similarity)
                   => ScanPos(rk_out[i].id) < ScanPos(rk_out[j].id)

C9_Witness ==
    /\ rk_pc = "done"
    /\ \E i, j \in 1..Len(rk_out) :
           /\ i < j
           /\ rk_out[i].similarity = rk_out[j].similarity
           /\ rk_out[i].id > rk_out[j].id
    /\ \E i, j \in 1..Len(rk_out) : rk_out[i].similarity > rk_out[j].similarity

(***************************************************************************)
(* Claims about the enrollment                                             *)
(***************************************************************************)
\* the step is an enrollment with merge into a profile that exists
MergeEnrollStep ==
    /\ en_ops' = en_ops + 1
    /\ en_last'.op = "enroll"
    /\ en_last'.status = 200
    /\ en_last'.merge
    /\ en_last'.spk_id \in DOMAIN en_points

\* C5: every enrollment with merge into an existing profile increases the
\* sample_count of the profile by the number of samples of the call, and when the
\* sample is the one already enrolled the direction of the voiceprint is unchanged.
C5_MergeAddsSamplesOfCall ==
    [][MergeEnrollStep =>
          LET id == en_last'.spk_id
          IN /\ en_points'[id].payload.sample_count
                    = en_points[id].payload.sample_count + en_last'.n
             /\ en_last'.vector = en_points[id].vector
                    => en_points'[id].vector = en_points[id].vector]_vars

(***************************************************************************)
(* Claims about the single-file enrollment store                           *)
(***************************************************************************)
Live(id) == id \in DOMAIN sp_written /\ sp_written[id].live

\* C6: a voiceprint read back by the id under which it was written, through
\* load_embedding or as the scanned entry, is identical to the one written, as
\* long as the id has not been written again or deleted.
C6_ReadBackIdentical ==
    /\ (sp_last.op = "load" /\ Live(sp_last.id))
           => sp_last.emb = <<sp_written[sp_last.id].emb>>
    /\ \A i \in 1..Len(sp_entries) :
           Live(sp_entries[i].id) => sp_entries[i].emb = sp_written[sp_entries[i].id].emb

(***************************************************************************)
(* Claims about the clusterer                                              *)
(***************************************************************************)
RepeatedAfterFresh == cl_prev.called /\ cl_prev.created /\ cl_last.emb = cl_prev.emb

\* C8: when assign(e) has just created a fresh centroid from e, assign(e) called
\* again at once returns the id of that centroid and creates no new cluster.
C8_RepeatReturnsFreshCentroid ==
    RepeatedAfterFresh =>
        /\ cl_last.id = cl_prev.id
        /\ ~cl_last.created
        /\ cl_centroids[cl_prev.id + 1].count = 2

C8_Witness ==
    /\ RepeatedAfterFresh
    /\ cl_prev.id > 0
    /\ \E j \in 1..Len(cl_centroids) :
           j # cl_prev.id + 1 /\ Dot(cl_last.emb, cl_centroids[j].sum) > 0

IsPrefix(a, b) == Len(a) <= Len(b) /\ SubSeq(b, 1, Len(a)) = a

DirLess(a, b) == a[2] * (b[1] + b[2]) < b[2] * (a[1] + a[2])
StrictlyBetween(x, a, b) ==
    \/ DirLess(a, x) /\ DirLess(x, b)
    \/ DirLess(b, x) /\ DirLess(x, a)

\* C12: after an enrollment with merge into an existing profile the stored
\* voiceprint is normalize(old * weight + new): the old direction when the call
\* brings the same direction, and otherwise a direction strictly between the old
\* one and the one of the call, so not simply the voiceprint of the call.
C12_MergeBlendsVoiceprint ==
    [][MergeEnrollStep =>
          LET old == en_points[en_last'.spk_id].vector
              new == en_last'.vector
              stored == en_points'[en_last'.spk_id].vector
          IN IF old = new THEN stored = old
             ELSE stored # new /\ StrictlyBetween(stored, old, new)]_vars

\* C13: two merge enrollments running at once on the same id never lose an
\* update: once the jobs on an id are finished, and all of them merged, the
\* stored profile lists the sources of every job that wrote it, and has
\* counted at least one sample for each; jobs on another id leave it as it was.
JobsOn(id) == {p \in DOMAIN jb_pc : jb_req[p].spk_id = id}
Settled(id) == \A p \in JobsOn(id) : jb_pc[p] \in {"done", "error"} /\ jb_req[p].merge
Wrote(id) == {p \in JobsOn(id) : jb_pc[p] = "done"}
C13_NoLostUpdate ==
    \A id \in JobSpkIds :
        (Len(jb_pc) = MaxJobs /\ Settled(id) /\ Wrote(id) # {}) =>
            /\ id \in DOMAIN jb_points
            /\ LET pl == jb_points[id].payload
               IN /\ \A p \in Wrote(id) :
                        \E i \in 1..Len(pl.sources) : pl.sources[i].url = p
                  /\ pl.sample_count >= Cardinality(Wrote(id))


\* C14: a re-scan excludes the reads: a topk running while refresh_if_changed
\* runs never iterates over an empty or half-filled list, so every profile
\* of the last complete list is among the entries it iterated.
IdsOf(entries) == {entries[i].id : i \in 1..Len(entries)}
C14_TopkSeesCompleteList ==
    fs_read.called => IdsOf(fs_read.complete) \subseteq IdsOf(fs_read.observed)

\* C15: after an external add or modification, also one made during a scan
\* or stamped with the time the cache already holds, a later refresh
\* re-scans: when a refresh that began after the last write has returned,
\* the cached entries are the profiles of the directory.
CacheMatchesDisk ==
    /\ IdsOf(fs_entries) = DOMAIN fs_disk
    /\ \A i \in 1..Len(fs_entries) : fs_entries[i].voice = fs_disk[fs_entries[i].id].voice
C15_RefreshCatchesUp == (fs_flag = "settled" /\ fs_pc = "idle") => CacheMatchesDisk


\* C16: with the remote store configured, a failing call to it is surfaced
\* as an error: an enrollment never writes the profile to the local file
\* store instead (no .npy file and no index.json entry appears).
SpkEnrollStep == sp_ops' # sp_ops /\ sp_last'.op = "enroll"
C16_NoSilentFileFallback ==
    [][(sp_cfg = "qdrant" /\ SpkEnrollStep) =>
           (sp_npy' = sp_npy /\ sp_index' = sp_index)]_vars

\* C17: an enroll call in which no sample gives an embedding of non-zero
\* norm ends with an error, and creates or modifies no profile.
EnrollStep == en_ops' # en_ops /\ en_last'.op = "enroll"
NoVoice(files) == \A i \in 1..Len(files) : files[i] \notin EnrollVoices
C17_NoUsableAudioIsAnError ==
    [][(EnrollStep /\ NoVoice(en_last'.files)) =>
           (en_last'.status # 200 /\ en_points' = en_points)]_vars
C17_Witness ==
    /\ en_last.op = "enroll"
    /\ en_last.files = <<Silent, Silent>>
    /\ en_last.status = 400
    /\ en_last.spk_id = SpkA
    /\ SpkA \in DOMAIN en_points
    /\ en_points[SpkA].payload.updated_at < en_now - 1

\* C18: in an enroll call with several samples, one sample whose embedding
\* fails, by an exception or by a zero vector, is skipped: when another
\* sample gives a usable embedding the call succeeds and stores the mean of
\* the usable ones.
OneFails(files) ==
    /\ Len(files) > 1
    /\ Cardinality({i \in 1..Len(files) : files[i] \notin EnrollVoices}) = 1
C18_FailingSampleIsSkipped ==
    [][(EnrollStep /\ OneFails(en_last'.files)) =>
           /\ en_last'.status = 200
           /\ en_last'.spk_id \in DOMAIN en_points'
           /\ en_points'[en_last'.spk_id].vector =
                  MeanVector(SelectSeq(en_last'.files, LAMBDA f : f \in EnrollVoices))]_vars

\* C19: in a run over several segments, a segment that fails to embed or
\* to be looked up is the only one left unlabeled: the request succeeds, and
\* every other segment has the result it has without the failure.
SegFails(seg) == ~seg.embed_ok \/ ~seg.lookup_ok
C19_OnlyFailedSegmentUnlabeled ==
    (/\ ir_pc = "done"
     /\ Len(ir_req.segs) > 1
     /\ Cardinality({j \in 1..Len(ir_req.segs) : SegFails(ir_req.segs[j])}) = 1) =>
        /\ ir_resp.status = 200
        /\ Len(ir_resp.segments) = Len(ir_req.segs)
        /\ \A j \in 1..Len(ir_req.segs) :
              IF SegFails(ir_req.segs[j])
              THEN ir_resp.segments[j].best = NoCand
              ELSE ir_resp.segments[j] =
                       Segment(ir_store, ir_req.segs[j].emb, TopKDefault,
                               SpeakerSimThreshold, <<>>)

\* C20: a delete for an id that is not in the store answers false and
\* leaves every stored profile as it is; delete answers true only when a
\* profile with that id was removed.
SpkDeleteStep == sp_ops' # sp_ops /\ sp_last'.op = "delete"
Held(id) ==
    \/ id \in DOMAIN sp_qpoints
    \/ id \in DOMAIN sp_npy
    \/ \E i \in 1..Len(sp_index) : sp_index[i].id = id
C20_DeleteTrueOnlyWhenRemoved ==
    [][SpkDeleteStep =>
           /\ sp_last'.ok => Held(sp_last'.id)
           /\ ~Held(sp_last'.id) =>
                  (sp_qpoints' = sp_qpoints /\ sp_npy' = sp_npy /\ sp_index' = sp_index)]_vars

\* C21: every segment without a confident match (best is None) is reported
\* with the speaker label "Unbekannt", the key under which its duration is
\* counted in the speaking shares: label and share bucket agree.
C21_UnmatchedSegmentIsUnknown ==
    (ir_pc = "done" /\ ir_resp.status = 200) =>
        \A j \in 1..Len(ir_resp.segments) :
            ir_resp.segments[j].best = NoCand =>
                /\ ir_resp.labels[j].speaker = UnknownLabel
                /\ ir_resp.labels[j].speaker = ir_resp.labels[j].bucket

\* C22: the hint bonus only breaks near-ties: in the re-sorted list a
\* candidate whose name matches a hint stands above one whose name does not
\* only if its similarity plus the bonus is at least the other's
\* similarity, so a non-hinted candidate that leads by more than the bonus
\* stays above; the list holds the same candidates as before.
Hinted(c) == Bonus(c, bs_in.hints) > 0
C22_BonusBreaksNearTiesOnly ==
    bs_pc = "done" =>
        /\ \A i, j \in 1..Len(bs_out) :
              (i < j /\ Hinted(bs_out[i]) /\ ~Hinted(bs_out[j])) =>
                  bs_out[i].similarity + HintBonus >= bs_out[j].similarity
        /\ {bs_out[i] : i \in 1..Len(bs_out)} = {bs_in.cands[i] : i \in 1..Len(bs_in.cands)}
        /\ Len(bs_out) = Len(bs_in.cands)
\* the bonus has lifted a hinted candidate over a slightly better one, and has
\* left a clearly better non-hinted one on top
C22_Witness ==
    /\ bs_pc = "done"
    /\ Len(bs_out) = 3
    /\ ~Hinted(bs_out[1]) /\ Hinted(bs_out[2]) /\ ~Hinted(bs_out[3])
    /\ bs_out[1].similarity > bs_out[2].similarity + HintBonus
    /\ bs_out[2].similarity < bs_out[3].similarity

\* C23: every voiceprint held by the store, in a .npy file or in a point of
\* the collection, is L2-normalized after any write.
C23_StoredVoiceprintsAreUnit ==
    /\ \A id \in DOMAIN sp_npy : sp_npy[id].mag = "unit"
    /\ \A id \in DOMAIN sp_qpoints : sp_qpoints[id].vector.mag = "unit"

\* C24 as stated: a segment with end_ms <= start_ms given to the identify
\* endpoint is rejected as invalid input, so the request does not succeed.
HasDegenerate == \E j \in 1..Len(ir_req.segs) : Degenerate(ir_req.segs[j].span)
NonIncreasingMs(list) ==
    \A i, j \in 1..Len(list) : i < j => list[i].ms >= list[j].ms
C25_SharesSortedByDuration ==
    sh_pc = "done" =>
        /\ NonIncreasingMs(sh_out)
        /\ NonIncreasingMs(SortByPn(SortByMs(RawShares(Buckets(sh_in.segs),
                               EffectiveTotal(sh_in.segs, sh_in.file_duration_ms)))))
\* the buckets were created in another order than the one returned
C25_Witness ==
    /\ sh_pc = "done"
    /\ Len(sh_out) = 3
    /\ sh_out[1].ms > sh_out[2].ms /\ sh_out[2].ms > sh_out[3].ms /\ sh_out[3].ms > 0
    /\ BucketKey(sh_in.segs[1]) = sh_out[3].name

SpeechAt(k) == k >= 0 /\ k < Len(vd_in.frames) /\ vd_in.frames[k + 1]
\* the frames a..b-1 are all non-speech
SilentFrom(a, b) == \A k \in a..(b - 1) : ~SpeechAt(k)
\* the segments that a non-speech frame closed
ClosedBySilence == {i \in 1..Len(vd_out.runs) : vd_out.runs[i].closed_at < Len(vd_in.frames)}

\* C27: a segment is closed only after at least min_silence_ms of consecutive
\* non-speech frames, and its end_ms is the start of that closing silence:
\* every frame from end_ms up to the closing frame is a non-speech frame.
C27_ClosedByConsecutiveSilence ==
    vd_pc = "done" =>
        \A i \in ClosedBySilence :
            LET r == vd_out.runs[i]
            IN /\ r.end_ms % HopMs = 0
               /\ SilentFrom(r.end_ms \div HopMs, r.closed_at + 1)
               /\ (r.closed_at + 1) * HopMs - r.end_ms >= vd_in.min_silence_ms

\* a..b-1 is a whole run of speech frames shorter than min_speech_ms, and at
\* least min_silence_ms of non-speech frames (one frame or more) follow it
ShortRunThenSilence(a, b) ==
    /\ a < b
    /\ \A k \in a..(b - 1) : SpeechAt(k)
    /\ ~SpeechAt(a - 1)
    /\ (b - a) * HopMs < vd_in.min_speech_ms
    /\ \E c \in (b + 1)..Len(vd_in.frames) :
          /\ SilentFrom(b, c)
          /\ (c - b) * HopMs >= vd_in.min_silence_ms

\* C28: a run of speech frames shorter than min_speech_ms that is followed by
\* at least min_silence_ms of silence is in no emitted segment.
C28_ShortRunDiscarded ==
    vd_pc = "done" =>
        \A a \in 0..Len(vd_in.frames), b \in 0..Len(vd_in.frames) :
            ShortRunThenSilence(a, b) =>
                \A i \in 1..Len(vd_out.runs) :
                    ~(vd_out.runs[i].start_ms < b * HopMs /\ vd_out.runs[i].end_ms > a * HopMs)

\* C29: an enrollment with merge into an existing profile that supplies no
\* name leaves the stored name of the profile as it was.
C29_MergeWithoutNameKeepsName ==
    [][(MergeEnrollStep /\ en_last'.name = <<>>) =>
          en_points'[en_last'.spk_id].payload.name = en_points[en_last'.spk_id].payload.name]_vars

(***************************************************************************)
(* Claims about the diarization jobs                                       *)
(***************************************************************************)
\* the steps of job jid all succeed
SourceSucceeds(jid) == dj_tasks[jid].fails = "none" /\ BackendSupported(dj_backend)
\* a job whose task has not started is queued, without a result
QueuedAtStart ==
    \A jid \in 1..Len(dj_files) :
        dj_tasks[jid].pc = "load" =>
            dj_files[jid].status = "queued" /\ dj_files[jid].result = NoResult
ErrorOnlyOnFailure ==
    \A jid \in 1..Len(dj_files) : dj_files[jid].status = "error" => ~SourceSucceeds(jid)
FinalStatusStays ==
    \A jid \in 1..Len(dj_files) :
        dj_files[jid].status \in {"done", "error"} => dj_files'[jid].status = dj_files[jid].status
ReachesDone(jid) ==
    (jid \in 1..Len(dj_files) /\ SourceSucceeds(jid))
        ~> (/\ jid \in 1..Len(dj_files)
            /\ dj_files[jid].status = "done"
            /\ dj_files[jid].result # NoResult)

====
